---- MODULE Spec2Model ----
(***************************************************************************)
(* Generation-pipeline orchestrator of openOii: run admission, the         *)
(* process-local task registry, the life cycle of an AgentRun, the Redis   *)
(* checkpoint channel, the stage loop of run_from_agent, the invalidation  *)
(* of a project's rows and files, and the sweep at process start.          *)
(*                                                                         *)
(* Granularity: one action per await-delimited segment of a coroutine.     *)
(* The awaited operation (a database statement, a Redis command) takes     *)
(* effect atomically together with the synchronous code that follows it up *)
(* to the next await.                                                      *)
(*                                                                         *)
(* Spec       admission, registry and run life cycle of one project        *)
(* SpecChan   the checkpoint channel of one run id with its one waiter,    *)
(*            the orchestrator task of that run                            *)
(* SpecChan2  the same channel with a second, concurrent waiter            *)
(* SpecOrch   run_from_agent of one run, await by await, as the AgentRun   *)
(*            row sees it; the result of a checkpoint wait is an input     *)
(* SpecOrchX  SpecOrch with the cancel endpoint and a preempting request   *)
(* SpecInv    run_from_agent as the Character, Scene and Shot rows, the    *)
(*            project's final video and the static directory see it        *)
(* SpecSweep  init_db over the runs a previous process left behind         *)
(***************************************************************************)
EXTENDS Integers, Sequences, FiniteSets, TLC

\* ------------------------------------------------------------------ bounds
MaxRuns == 2
NumShots == 1
MaxSignals == 2
MaxWaits == 2
MaxTimeout == 2
MaxReplans == 1
MaxChars == 2
MaxScenes == 2
MaxShotRows == 2
MaxCancels == 2
MaxRetries == 6
MaxBatch == 4
MaxConfirms == 2
MaxJson == 4

\* --------------------------------------------------------------- constants
RunIds == 1..MaxRuns
Shots == 1..NumShots
\* resource scope of a run inside the project: 0 is the project-wide scope
\* (resource_type = resource_id = None), s > 0 is ("shot", s)
ProjectScope == 0
Scopes == {ProjectScope} \cup Shots
NoTask == 0

ActiveStatuses == {"queued", "running"}
\* a handler that also takes a running run for finished
TerminalOrRunning == {"cancelled", "failed", "succeeded", "running"}
\* the statuses a guarded handler leaves alone
TerminalStatuses == {"cancelled", "failed", "succeeded"}

VARIABLES
    \* ---- database: AgentRun rows and the user AgentMessage rows
    rstatus,    \* rstatus[r]: AgentRun.status, "absent" before the row is inserted
    scope,      \* scope[r]: (resource_type, resource_id) of the run
    kind,       \* kind[r]: request that owns slot r: none / generate / feedback / shot
    fbMsgs,     \* fbMsgs[r]: number of user AgentMessage rows of run r
    \* ---- request handlers in flight
    hpc,        \* hpc[r]: position of the admitting request handler
    \* ---- background tasks (task r runs run r)
    tpc,        \* tpc[r]: position of the task's coroutine
    tcancel,    \* tcancel[r]: Task.cancel() was called and not yet delivered
    mem,        \* mem[r]: run.status as held by the task's ORM object
    \* ---- TaskManager._tasks[project_id]
    tasks,
    \* ---- cancel endpoint in flight
    cpc, ctask, csel,
    \* ---- history of the cancel endpoint
    cret,       \* "status" of the response of the call that returned last
    cevents,    \* number of run_cancelled events the endpoint has sent
    cdone,      \* runs a call of the endpoint committed as cancelled
    \* ---- history
    lastReg,    \* the task registered last
    preempted,  \* the last registration found a live task in the entry
    sent,       \* terminal events handed to ws.send_event, as <<type, run>>
    \* ---- Redis, for one run id
    flag,       \* the key openoii:confirm:{run_id}: 0 absent, else its number of values
    sub,        \* sub[w]: w's pubsub is subscribed to openoii:confirm_channel:{run_id}
    inbox,      \* inbox[w]: broadcast messages buffered on w's pubsub
    ack,        \* ack[w]: the subscribe confirmation is still unread
    \* ---- callers of the channel
    spc,        \* spc[s]: position of signaler s in trigger_confirm_redis
    wpc,        \* wpc[w]: position of waiter w
    wto,        \* wto[w]: timeout argument of the current wait, in poll intervals
    elapsed,    \* elapsed[w]: loop.time() minus the time the deadline was set
    pollAt,     \* pollAt[w]: elapsed[w] when the current get_message began
    wret,       \* wret[w]: value the current wait returns
    wres,       \* wres[w]: values returned by w's completed waits
    \* ---- history of the orchestrator's current round
    cleared,    \* the round began with clear_confirm_event_redis
    pending,    \* the flag was set when wait_for_confirm_redis was called
    gset,       \* a trigger SET ran since the round began and before the deadline
    gany,       \* a trigger step (SET or PUBLISH) ran since the round began
    everCleared,\* some round began with a clear
    sigsAtFirst,\* triggers completed when the first wait was called (-1: no
                \* wait yet, -2: a trigger was half done)
    \* ---- AgentRun columns written by the orchestrator
    ragent,     \* ragent[r]: AgentRun.current_agent ("none": NULL)
    rprog,      \* rprog[r]: AgentRun.progress as the fraction <<num, den>>
    rerror,     \* rerror[r]: AgentRun.error ("none": NULL)
    \* ---- locals of run_from_agent for the run of task Orun
    oplan,      \* plan
    oi,         \* i, an index into plan counted from 0
    oname,      \* agent_name
    omode,      \* ctx.rerun_mode
    oauto,      \* auto_mode
    operr,      \* the exception on its way to except Exception
    oreplans,   \* number of re-plans of the run so far
    \* ---- history of the run of task Orun
    ostarted,   \* index of the stage of the current plan started last, -1
                \* after a re-plan or a terminal update of the orchestrator
    oexec,      \* name of the executor invoked since that stage start
    otimedout,  \* a checkpoint wait of the run returned False
    cwait,      \* the task was cancelled while in a checkpoint wait
    \* ---- database: Project.status
    pstatus,
    \* ---- history of the current plan of the run of task Orun
    olog,       \* names of the executors that returned, in order
    owaits,     \* number of calls of _wait_for_confirm
    owok,       \* number of those calls whose wait returned True
    oraised,    \* position of the run when an await of the try block raised
    orej,       \* the AgentRun fields when an unknown agent name was rejected
    \* ---- database: the project's Character, Scene and Shot rows
    art,        \* art.characters, art.scenes, art.shots: ids of the rows;
                \* art.character_image[c], art.shot_image[s],
                \* art.shot_video[s], art.project_video: the URL columns;
                \* art.shot_scene[s]: Shot.scene_id
    nextId,     \* nextId.characters, .scenes, .shots: next id of each table
    \* ---- the static directory on disk
    files,      \* paths, relative to STATIC_DIR, of the files that exist
    \* ---- run_from_agent as the project's rows see it
    ipc,        \* idle / routed / loop
    istart,     \* agent_name, the start agent of the plan
    imode,      \* ctx.rerun_mode
    iplan,      \* plan
    ii,         \* i, an index into plan counted from 0
    ireplans,   \* number of re-plans so far
    \* ---- history of the current plan
    pre,        \* art when the plan's cleanup began
    ipreserve,  \* preserve_ids of the scriptwriter's incremental update
    iapplied,   \* the incremental update ran: "no", "plain" (nothing new
                \* in the output) or "new"
    istaged,    \* number of stages executed since the cleanup
    notified,   \* data_cleared events sent by the cleanup
    dropped,    \* local URLs held by the rows that a cleanup or an
                \* incremental update deleted
    rmfailed,   \* paths on which os.remove raised OSError
    \* ---- process start
    boot,       \* "starting" until init_db committed, then "serving"
    bootStatus, \* AgentRun.status of every run when the process started
    bootError,  \* AgentRun.error of every run when the process started
    \* ---- one call of a service's retry loop
    rtsvc,      \* the service whose loop runs, "none" before the call
    rtmax,      \* self.max_retries
    rtpc,       \* idle / call / sleep / returned / raised
    rtattempt,  \* attempt, the loop variable
    rtdelay,    \* delay_s, in milliseconds
    rthist,     \* outcome of every request sent so far, in order
    rtslept,    \* the delays slept so far, in order
    \* ---- one run of a batched asset stage
    bstage,     \* the stage, "none" before it starts
    bn,         \* total = len(shots)
    bi,         \* i, the loop variable
    bpc,        \* idle / item / generate / handler / final / done / raised
    bexpired,   \* the session's instances are expired
    bcalls,     \* outcome of the generation call of every shot reached
    basset,     \* the shots whose URL column is set and committed
    \* ---- confirmations and feedback of the run of task Orun
    flast,      \* self._last_user_feedback_id, 0 for None; the user
                \* AgentMessage rows of run r have the ids 1..fbMsgs[r]
    fflag,      \* the confirm flag of the run is set in Redis
    fpend,      \* "plain" / "text": the confirm messages that set the flag
                \* since it was last cleared or consumed
    fended,     \* fpend when the last checkpoint wait returned
    fhist,      \* ids of the feedback messages handed to the review agent
    wspc,       \* ws_projects: "idle", or "stored" between the commit of a
                \* feedback message and trigger_confirm_redis
    fcount,     \* confirm messages received so far
    \* ---- history of the classification and the cleanup
    orouted,    \* <<start_agent, mode>> of the last routing
    ocleaned,   \* <<agent_name, mode>> of every cleanup since that routing
    \* ---- the targets of a re-plan as the project's rows see them
    itargets,   \* target_ids.shot_ids of the routing the review agent
                \* returned last
    imade,      \* ids of the shots an asset stage produced an image or a
                \* video for since the last cleanup
    \* ---- deletion of the project
    pdel,       \* delete_project committed: the project's rows are gone
    oresumed,   \* the task of Orun resumed from an await after that commit
    \* ---- one call of _try_fix_incomplete_json
    jtext,      \* the argument text, a sequence of characters
    jout,       \* the returned text
    jpc         \* call / returned

admVars == <<rstatus, scope, kind, fbMsgs, hpc, tpc, tcancel, mem,
             tasks, cpc, ctask, csel, cret, cevents, cdone,
             lastReg, preempted, sent>>
redisVars == <<flag, sub, inbox, ack>>
waitVars == <<wpc, wto, elapsed, pollAt, wret, wres>>
roundVars == <<cleared, pending, gset, gany, everCleared, sigsAtFirst>>
chanVars == <<redisVars, spc, waitVars, roundVars>>
runVars == <<ragent, rprog, rerror>>
loopVars == <<oplan, oi, oname, omode, oauto, operr, oreplans>>
orchHist == <<ostarted, oexec, otimedout, cwait>>
orchVars == <<runVars, loopVars, orchHist>>
tgtVars == <<itargets, imade>>
invVars == <<art, nextId, files, ipc, istart, imode, iplan, ii, ireplans,
             pre, ipreserve, iapplied, istaged, notified, dropped, rmfailed,
             tgtVars>>
sweepVars == <<boot, bootStatus, bootError>>
flowVars == <<pstatus, olog, owaits, owok, oraised, orej>>
retryVars == <<rtsvc, rtmax, rtpc, rtattempt, rtdelay, rthist, rtslept>>
batchVars == <<bstage, bn, bi, bpc, bexpired, bcalls, basset>>
jsonVars == <<jtext, jout, jpc>>
svcVars == <<retryVars, batchVars, jsonVars>>
fbVars == <<flast, fflag, fpend, fended, fhist, wspc, fcount>>
planHist == <<orouted, ocleaned>>
delVars == <<pdel, oresumed>>
routeVars == <<fbVars, planHist, delVars>>
restVars == <<invVars, sweepVars, flowVars, svcVars, routeVars>>
nonAdmVars == <<chanVars, orchVars, restVars>>
nonChanVars == <<admVars, orchVars, restVars>>
nonInvVars == <<admVars, chanVars, orchVars, sweepVars, flowVars, svcVars,
               routeVars>>
vars == <<admVars, chanVars, orchVars, restVars>>

dbVars == <<rstatus, scope, kind, fbMsgs>>
cancelVars == <<cpc, ctask, csel, cret, cevents, cdone>>
histVars == <<lastReg, preempted, sent>>

\* ------------------------------------------------------------ TaskManager
Done(t) == tpc[t] = "done"

\* TaskManager.is_running(project_id)
IsRunning == tasks # NoTask /\ ~Done(tasks)

\* TaskManager.register(project_id, task): cancel a live old task, then
\* overwrite the entry
Register(t) ==
    /\ tcancel' = [tcancel EXCEPT ![tasks] =
                      IF tasks # NoTask /\ ~Done(tasks) THEN TRUE ELSE @]
    /\ tasks' = t
    /\ lastReg' = t
    /\ preempted' = (tasks # NoTask /\ ~Done(tasks))

\* TaskManager.remove(project_id): pops whatever entry the project has
Remove == tasks' = NoTask

HasActiveRun == \E q \in RunIds : rstatus[q] \in ActiveStatuses

\* slots are handed out in order
FreeSlot(r) == /\ kind[r] = "none"
               /\ \A q \in RunIds : q < r => kind[q] # "none"

\* --------------------------------------------------------------- requests
\* POST /generate up to the commit of the new AgentRun (status "running")
GenerateCreate(r) ==
    /\ FreeSlot(r)
    /\ kind' = [kind EXCEPT ![r] = "generate"]
    /\ scope' = [scope EXCEPT ![r] = ProjectScope]
    /\ rstatus' = [rstatus EXCEPT ![r] = "running"]
    /\ hpc' = [hpc EXCEPT ![r] = "created"]
    /\ UNCHANGED <<fbMsgs, tpc, tcancel, mem, tasks, cancelVars, histVars,
                   nonAdmVars>>

\* POST /generate after the refresh: create_task, register, return
GenerateRegister(r) ==
    /\ kind[r] = "generate" /\ hpc[r] = "created"
    /\ hpc' = [hpc EXCEPT ![r] = "registered"]
    /\ tpc' = [tpc EXCEPT ![r] = "new"]
    /\ Register(r)
    /\ UNCHANGED <<dbVars, mem, cancelVars, sent,
                   nonAdmVars>>

\* POST /feedback up to the commit of the new AgentRun (status "queued")
FeedbackCreate(r) ==
    /\ FreeSlot(r)
    /\ kind' = [kind EXCEPT ![r] = "feedback"]
    /\ scope' = [scope EXCEPT ![r] = ProjectScope]
    /\ rstatus' = [rstatus EXCEPT ![r] = "queued"]
    /\ hpc' = [hpc EXCEPT ![r] = "created"]
    /\ UNCHANGED <<fbMsgs, tpc, tcancel, mem, tasks, cancelVars, histVars,
                   nonAdmVars>>

\* POST /feedback: store the feedback message, create_task, register
FeedbackRegister(r) ==
    /\ kind[r] = "feedback" /\ hpc[r] = "created"
    /\ hpc' = [hpc EXCEPT ![r] = "registered"]
    /\ fbMsgs' = [fbMsgs EXCEPT ![r] = @ + 1]
    /\ tpc' = [tpc EXCEPT ![r] = "new"]
    /\ Register(r)
    /\ UNCHANGED <<rstatus, scope, kind, mem, cancelVars, sent,
                   nonAdmVars>>

\* POST /shots/{id}/regenerate: the fine-grained lock check; a conflict (409)
\* changes nothing
ShotCheck(r, s) ==
    /\ FreeSlot(r)
    /\ ~\E q \in RunIds : rstatus[q] \in ActiveStatuses /\ scope[q] = s
    /\ kind' = [kind EXCEPT ![r] = "shot"]
    /\ scope' = [scope EXCEPT ![r] = s]
    /\ hpc' = [hpc EXCEPT ![r] = "checked"]
    /\ UNCHANGED <<rstatus, fbMsgs, tpc, tcancel, mem, tasks,
                   cancelVars, histVars,
                   nonAdmVars>>

\* regenerate_shot: assets cleared, AgentRun inserted with status "running"
ShotCreate(r) ==
    /\ kind[r] = "shot" /\ hpc[r] = "checked"
    /\ rstatus' = [rstatus EXCEPT ![r] = "running"]
    /\ hpc' = [hpc EXCEPT ![r] = "created"]
    /\ UNCHANGED <<scope, kind, fbMsgs, tpc, tcancel, mem, tasks,
                   cancelVars, histVars,
                   nonAdmVars>>

\* regenerate_shot: create_task(_run_agent_plan), register under project_id
ShotRegister(r) ==
    /\ kind[r] = "shot" /\ hpc[r] = "created"
    /\ hpc' = [hpc EXCEPT ![r] = "registered"]
    /\ tpc' = [tpc EXCEPT ![r] = "new"]
    /\ Register(r)
    /\ UNCHANGED <<dbVars, mem, cancelVars, sent,
                   nonAdmVars>>

\* -------------------------------------------------------- cancel endpoint
\* cancel_project_run: task_manager.cancel(project_id)
CancelTask ==
    /\ cpc = "idle" /\ cevents < MaxCancels
    /\ ctask' = IsRunning
    /\ tcancel' = [tcancel EXCEPT ![tasks] = IF IsRunning THEN TRUE ELSE @]
    /\ cpc' = "cancelled"
    /\ UNCHANGED <<dbVars, hpc, tpc, mem, tasks, csel, cret, cevents, cdone,
                   histVars, nonAdmVars>>

\* if not runs and not task_cancelled
NothingToCancel(runs, cancelled) == runs = {} /\ ~cancelled

\* cancel_project_run: select the queued/running runs; nothing to do returns
\* no_active_run
CancelSelect ==
    /\ cpc = "cancelled"
    /\ LET runs == {r \in RunIds : rstatus[r] \in ActiveStatuses}
       IN IF NothingToCancel(runs, ctask)
          THEN /\ cpc' = "idle" /\ csel' = {} /\ ctask' = FALSE
               /\ cret' = "no_active_run"
          ELSE /\ cpc' = "selected" /\ csel' = runs /\ ctask' = ctask
               /\ cret' = cret
    /\ UNCHANGED <<dbVars, hpc, tpc, tcancel, mem, tasks, cevents, cdone,
                   histVars, nonAdmVars>>

\* cancel_project_run: run.status = "cancelled" for the selected runs, commit,
\* then the run_cancelled event of the project and the response "cancelled"
\* (send_event touches neither the database nor the registry)
CancelCommit ==
    /\ cpc = "selected"
    /\ rstatus' = [r \in RunIds |-> IF r \in csel THEN "cancelled" ELSE rstatus[r]]
    /\ cpc' = "idle" /\ csel' = {} /\ ctask' = FALSE
    /\ cret' = "cancelled"
    /\ cevents' = cevents + 1
    /\ cdone' = cdone \cup csel
    /\ sent' = sent \cup {<<"run_cancelled", r>> : r \in csel}
    /\ UNCHANGED <<scope, kind, fbMsgs, hpc, tpc, tcancel, mem,
                   tasks, lastReg, preempted,
                   nonAdmVars>>

\* ------------------------------------------------------------------ tasks
\* A task's position names the await it is suspended on:
\*   new       created, first step not yet run
\*   loaded    run_from_agent after session.get(AgentRun)
\*   plan      inside the plan: a stage executor, a checkpoint wait or one of
\*             the awaits between them
\*   exit_completed, exit_failed
\*             the body's last write is done; the run_completed or
\*             run_failed event and the finally block are still to run
\*   fail_w    _run_agent_plan's except Exception, before its commit
\*   cancel_h  except CancelledError, before the read of the run
\*   cancel_w  except CancelledError, before its commit
\*   done      the coroutine has ended
IsOrch(r) == kind[r] \in {"generate", "feedback"}

\* the task whose run_from_agent is followed await by await
Orun == 1
\* positions inside run_from_agent's try block, in the detailed view:
\*   started   after _set_run(status="running")
\*   review    ReviewAgent.run is pending
\*   routed    the routing is read, _cleanup_for_rerun is pending
\*   loop      top of the while loop, _set_run of the stage is pending
\*   stage     agent.run is pending
\*   confirm   inside _wait_for_confirm
\*   finish    the loop has ended, _set_run(status="succeeded") is pending
\*   fail      except Exception: rollback and _log are pending
\*   fail_set  except Exception: _set_run(status="failed") is pending
TryPositions == {"loaded", "started", "review", "routed", "loop", "stage",
                 "confirm", "finish"}
\* positions of a task at which a CancelledError reaches the handler
ExitPositions == {"exit_completed", "exit_failed"}
\* a task that reports every outcome as run_completed
ExitEventCompleted(pos) == "run_completed"
\* the event a task sends from an exit position
ExitEvent(pos) == IF pos = "exit_completed" THEN "run_completed" ELSE "run_failed"
BodyPositions == TryPositions \cup {"plan", "fail_w", "fail", "fail_set"}
                              \cup ExitPositions

\* The ORM emits a column only when the attribute differs from the value the
\* object holds: the status in the database after assigning v to run.status
\* and committing
OrmWrite(r, v) == IF mem[r] # v THEN v ELSE rstatus[r]

\* A task cancelled before its first step never enters its try block: no
\* handler and no finally runs
TaskCancelUnstarted(r) ==
    /\ tpc[r] = "new" /\ tcancel[r]
    /\ tpc' = [tpc EXCEPT ![r] = "done"]
    /\ tcancel' = [tcancel EXCEPT ![r] = FALSE]
    /\ UNCHANGED <<dbVars, hpc, mem, tasks, cancelVars, histVars,
                   nonAdmVars>>

\* first step: session.get(Project), session.get(AgentRun)
TaskLoad(r) ==
    /\ tpc[r] = "new" /\ ~tcancel[r]
    /\ mem' = [mem EXCEPT ![r] = rstatus[r]]
    /\ tpc' = [tpc EXCEPT ![r] = IF IsOrch(r) THEN "loaded" ELSE "plan"]
    /\ UNCHANGED <<dbVars, hpc, tcancel, tasks, cancelVars, histVars,
                   nonAdmVars>>

\* run_from_agent: _set_run(status="running", current_agent="orchestrator",
\* progress=0.01), which commits and refreshes
TaskSetRunning(r) ==
    /\ IsOrch(r) /\ tpc[r] = "loaded" /\ ~tcancel[r]
    /\ rstatus' = [rstatus EXCEPT ![r] = OrmWrite(r, "running")]
    /\ mem' = [mem EXCEPT ![r] = OrmWrite(r, "running")]
    /\ tpc' = [tpc EXCEPT ![r] = "plan"]
    /\ UNCHANGED <<scope, kind, fbMsgs, hpc, tcancel, tasks,
                   cancelVars, histVars,
                   nonAdmVars>>

\* stage start of the orchestrator: _set_run(current_agent, progress) writes
\* no status, commits and refreshes the run
OrchStageStart(r) ==
    /\ IsOrch(r) /\ tpc[r] = "plan" /\ ~tcancel[r]
    /\ mem' = [mem EXCEPT ![r] = rstatus[r]]
    /\ UNCHANGED <<dbVars, hpc, tpc, tcancel, tasks, cancelVars, histVars,
                   nonAdmVars>>

\* stage start of _run_agent_plan: run.status = "running", commit, no refresh
ShotStageStart(r) ==
    /\ kind[r] = "shot" /\ tpc[r] = "plan" /\ ~tcancel[r]
    /\ rstatus' = [rstatus EXCEPT ![r] = OrmWrite(r, "running")]
    /\ mem' = [mem EXCEPT ![r] = "running"]
    /\ UNCHANGED <<scope, kind, fbMsgs, hpc, tpc, tcancel, tasks,
                   cancelVars, histVars,
                   nonAdmVars>>

\* the plan is exhausted: status = "succeeded", commit
TaskSucceed(r) ==
    /\ tpc[r] = "plan" /\ ~tcancel[r]
    /\ rstatus' = [rstatus EXCEPT ![r] = OrmWrite(r, "succeeded")]
    /\ mem' = [mem EXCEPT ![r] = OrmWrite(r, "succeeded")]
    /\ tpc' = [tpc EXCEPT ![r] = "exit_completed"]
    /\ UNCHANGED <<scope, kind, fbMsgs, hpc, tcancel, tasks,
                   cancelVars, histVars,
                   nonAdmVars>>

\* run_from_agent, except Exception (a stage raised, a checkpoint timed
\* out): rollback, log, _set_run(status="failed")
OrchFail(r) ==
    /\ IsOrch(r) /\ tpc[r] \in {"loaded", "plan"} /\ ~tcancel[r]
    /\ rstatus' = [rstatus EXCEPT ![r] = OrmWrite(r, "failed")]
    /\ mem' = [mem EXCEPT ![r] = OrmWrite(r, "failed")]
    /\ tpc' = [tpc EXCEPT ![r] = "exit_failed"]
    /\ UNCHANGED <<scope, kind, fbMsgs, hpc, tcancel, tasks,
                   cancelVars, histVars,
                   nonAdmVars>>

\* _run_agent_plan, except Exception: a fresh session reads the run and
\* leaves a terminal one alone
ShotFailGet(r) ==
    /\ kind[r] = "shot" /\ tpc[r] = "plan" /\ ~tcancel[r]
    /\ tpc' = [tpc EXCEPT ![r] =
                 IF rstatus[r] \in TerminalStatuses THEN "exit_failed" ELSE "fail_w"]
    /\ UNCHANGED <<dbVars, hpc, tcancel, mem, tasks, cancelVars, histVars,
                   nonAdmVars>>

\* _run_agent_plan, except Exception: status = "failed", commit
ShotFailWrite(r) ==
    /\ tpc[r] = "fail_w" /\ ~tcancel[r]
    /\ rstatus' = [rstatus EXCEPT ![r] = "failed"]
    /\ tpc' = [tpc EXCEPT ![r] = "exit_failed"]
    /\ UNCHANGED <<scope, kind, fbMsgs, hpc, tcancel, mem, tasks,
                   cancelVars, histVars,
                   nonAdmVars>>

\* the body sends its terminal event and returns; the finally block removes
\* the registry entry of the project
TaskExit(r) ==
    /\ tpc[r] \in ExitPositions /\ ~tcancel[r]
    /\ sent' = sent \cup {<<ExitEvent(tpc[r]), r>>}
    /\ tpc' = [tpc EXCEPT ![r] = "done"]
    /\ Remove
    /\ UNCHANGED <<dbVars, hpc, tcancel, mem, cancelVars, lastReg, preempted,
                   nonAdmVars>>

\* CancelledError is raised at the await the body is suspended on and
\* reaches the except CancelledError handler
TaskCancelled(r) ==
    /\ tpc[r] \in BodyPositions /\ tcancel[r]
    /\ tcancel' = [tcancel EXCEPT ![r] = FALSE]
    /\ tpc' = [tpc EXCEPT ![r] = "cancel_h"]
    /\ cwait' = (cwait \/ (r = Orun /\ tpc[r] = "confirm"))
    /\ UNCHANGED <<dbVars, hpc, mem, tasks, cancelVars, histVars,
                   chanVars, restVars, runVars, loopVars, ostarted, oexec, otimedout>>

\* the event of an except CancelledError handler: _run_agent_plan sends
\* run_cancelled, the _task of generate and of feedback sends nothing
CancelEvent(r) == IF kind[r] = "shot" THEN {<<"run_cancelled", r>>} ELSE {}

\* except CancelledError: cancel_session.get(AgentRun); a run that is
\* already terminal is left alone, the error is re-raised and the finally
\* removes the registry entry
TaskCancelGet(r) ==
    /\ tpc[r] = "cancel_h" /\ ~tcancel[r]
    /\ IF rstatus[r] \in TerminalStatuses
       THEN /\ tpc' = [tpc EXCEPT ![r] = "done"]
            /\ sent' = sent \cup CancelEvent(r)
            /\ Remove
       ELSE /\ tpc' = [tpc EXCEPT ![r] = "cancel_w"]
            /\ UNCHANGED <<tasks, sent>>
    /\ UNCHANGED <<dbVars, hpc, tcancel, mem, cancelVars, lastReg, preempted,
                   nonAdmVars>>

\* except CancelledError: status = "cancelled", commit, raise, finally
TaskCancelWrite(r) ==
    /\ tpc[r] = "cancel_w" /\ ~tcancel[r]
    /\ rstatus' = [rstatus EXCEPT ![r] = "cancelled"]
    /\ sent' = sent \cup CancelEvent(r)
    /\ tpc' = [tpc EXCEPT ![r] = "done"]
    /\ Remove
    /\ UNCHANGED <<scope, kind, fbMsgs, hpc, tcancel, mem,
                   cancelVars, lastReg, preempted,
                   nonAdmVars>>

\* a further cancel() while the handler is suspended interrupts it: the
\* pending await raises again and only the finally runs
TaskCancelAbort(r) ==
    /\ tpc[r] \in {"cancel_h", "cancel_w"} /\ tcancel[r]
    /\ tcancel' = [tcancel EXCEPT ![r] = FALSE]
    /\ tpc' = [tpc EXCEPT ![r] = "done"]
    /\ Remove
    /\ UNCHANGED <<dbVars, hpc, mem, cancelVars, histVars,
                   nonAdmVars>>

\* ----------------------------------------------------- checkpoint channel
Signalers == 1..MaxSignals
\* waiter 1 is the orchestrator task of the run; waiter 2 is a second caller
\* of wait_for_confirm_redis for the same run id
Orch == 1
Other == 2
Waiters == {Orch, Other}

\* r.set(key, "1", ex=3600): the key holds one value however often it is set.
\* Every modelled wait lasts at most its timeout, which is below the expiry.
RedisSet(f) == 1
\* r.get(key), used as a truth value
RedisGet(f) == f > 0
\* a delete that leaves the key in place
RedisDeleteKeeps(f) == f
\* r.delete(key)
RedisDelete(f) == 0

\* a clear that deletes nothing
ClearFlagSkipped(f) == f
\* clear_confirm_event_redis(run_id)
ClearFlag(f) == RedisDelete(f)

\* a loop that relies on the broadcast alone
FallbackGetSkipped(f) == FALSE
\* the check of the key that follows a get_message without a message
FallbackGet(f) == RedisGet(f)

\* _wait_for_confirm always waits with timeout=1800, the largest timeout
ConfirmTimeout == MaxTimeout
\* get_message(timeout=min(1.0, remaining)): one poll interval is the unit
PollInterval == 1
Remaining(to, el) == to - el
\* remaining < 0
TimedOutStrict(to, el) == Remaining(to, el) < 0
\* remaining <= 0
TimedOut(to, el) == Remaining(to, el) <= 0
Min(a, b) == IF a <= b THEN a ELSE b
PollTimeout(to, el) == Min(PollInterval, Remaining(to, el))

InRound(w) == wpc[w] # "idle"
\* the deadline of w's current wait has not passed: not yet set, or ahead
BeforeDeadline(w) ==
    \/ wpc[w] \in {"ev", "sub", "get1"}
    \/ wpc[w] \in {"poll", "get2"} /\ elapsed[w] < wto[w]

NumStarted == Cardinality({s \in Signalers : spc[s] # "idle"})
NumDone == Cardinality({s \in Signalers : spc[s] = "done"})

\* trigger_confirm_redis: r.set(key, "1", ex=3600)
TriggerSet(s) ==
    /\ spc[s] = "idle"
    /\ \A q \in Signalers : q < s => spc[q] # "idle"
    /\ flag' = RedisSet(flag)
    /\ spc' = [spc EXCEPT ![s] = "pub"]
    /\ gset' = (gset \/ (InRound(Orch) /\ BeforeDeadline(Orch)))
    /\ gany' = (gany \/ InRound(Orch))
    /\ UNCHANGED <<sub, inbox, ack, waitVars, cleared, pending, everCleared,
                   sigsAtFirst, nonChanVars>>

\* trigger_confirm_redis: r.publish(channel, "confirm"); the broadcast is
\* best effort, it reaches any subset D of the subscribed waiters
TriggerPublish(s, D) ==
    /\ spc[s] = "pub"
    /\ D \subseteq {w \in Waiters : sub[w]}
    /\ inbox' = [w \in Waiters |-> IF w \in D THEN inbox[w] + 1 ELSE inbox[w]]
    /\ spc' = [spc EXCEPT ![s] = "done"]
    /\ gany' = (gany \/ InRound(Orch))
    /\ UNCHANGED <<flag, sub, ack, waitVars, cleared, pending, gset,
                   everCleared, sigsAtFirst, nonChanVars>>

\* the ghost values at the start of a round
StartRound(w, c) ==
    IF w = Orch
    THEN /\ cleared' = c
         /\ gset' = FALSE
         /\ gany' = FALSE
         /\ everCleared' = (everCleared \/ c)
    ELSE UNCHANGED <<cleared, gset, gany, everCleared>>

\* the ghost values at the call of wait_for_confirm_redis
EnterWait(w) ==
    IF w = Orch
    THEN /\ pending' = RedisGet(flag)
         /\ sigsAtFirst' = IF sigsAtFirst = -1
                           THEN (IF NumStarted = NumDone THEN NumDone ELSE -2)
                           ELSE sigsAtFirst
    ELSE UNCHANGED <<pending, sigsAtFirst>>

\* _wait_for_confirm: clear_confirm_event_redis(run_id)
ConfirmClear(w) ==
    /\ wpc[w] = "idle" /\ Len(wres[w]) < MaxWaits
    /\ flag' = ClearFlag(flag)
    /\ wpc' = [wpc EXCEPT ![w] = "ev"]
    /\ wto' = [wto EXCEPT ![w] = ConfirmTimeout]
    /\ StartRound(w, TRUE)
    /\ UNCHANGED <<sub, inbox, ack, spc, elapsed, pollAt, wret, wres, pending,
                   sigsAtFirst, nonChanVars>>

\* _wait_for_confirm: run_awaiting_confirm is sent, wait_for_confirm_redis
\* is called
ConfirmSendEvent(w) ==
    /\ wpc[w] = "ev"
    /\ wpc' = [wpc EXCEPT ![w] = "sub"]
    /\ EnterWait(w)
    /\ UNCHANGED <<redisVars, spc, wto, elapsed, pollAt, wret, wres, cleared,
                   gset, gany, everCleared, nonChanVars>>

\* wait_for_confirm_redis(run_id, t) called on its own
CallWait(w, t) ==
    /\ wpc[w] = "idle" /\ Len(wres[w]) < MaxWaits
    /\ wpc' = [wpc EXCEPT ![w] = "sub"]
    /\ wto' = [wto EXCEPT ![w] = t]
    /\ StartRound(w, FALSE)
    /\ EnterWait(w)
    /\ UNCHANGED <<redisVars, spc, elapsed, pollAt, wret, wres, nonChanVars>>

\* pubsub.subscribe(channel) on a new pubsub
Subscribe(w) ==
    /\ wpc[w] = "sub"
    /\ sub' = [sub EXCEPT ![w] = TRUE]
    /\ ack' = [ack EXCEPT ![w] = TRUE]
    /\ inbox' = [inbox EXCEPT ![w] = 0]
    /\ wpc' = [wpc EXCEPT ![w] = "get1"]
    /\ UNCHANGED <<flag, spc, wto, elapsed, pollAt, wret, wres, roundVars, nonChanVars>>

\* the first r.get(key); without a flag the deadline is set and the loop
\* entered: remaining <= 0 returns False, otherwise get_message is awaited
FirstGet(w) ==
    /\ wpc[w] = "get1"
    /\ elapsed' = [elapsed EXCEPT ![w] = 0]
    /\ pollAt' = [pollAt EXCEPT ![w] = 0]
    /\ IF RedisGet(flag)
       THEN wpc' = [wpc EXCEPT ![w] = "del1"] /\ wret' = wret
       ELSE IF TimedOut(wto[w], 0)
            THEN wpc' = [wpc EXCEPT ![w] = "unsub"] /\ wret' = [wret EXCEPT ![w] = FALSE]
            ELSE wpc' = [wpc EXCEPT ![w] = "poll"] /\ wret' = wret
    /\ UNCHANGED <<redisVars, spc, wto, wres, roundVars, nonChanVars>>

\* r.delete(key); return True
DeleteAndReturn(w) ==
    /\ wpc[w] \in {"del1", "delm", "del2"}
    /\ flag' = RedisDelete(flag)
    /\ wret' = [wret EXCEPT ![w] = TRUE]
    /\ wpc' = [wpc EXCEPT ![w] = "unsub"]
    /\ UNCHANGED <<sub, inbox, ack, spc, wto, elapsed, pollAt, wres, roundVars,
                   nonChanVars>>

\* a poll interval passes while get_message blocks on an empty connection
Tick(w) ==
    /\ wpc[w] = "poll" /\ ~ack[w] /\ inbox[w] = 0
    /\ elapsed[w] - pollAt[w] < PollTimeout(wto[w], pollAt[w])
    /\ elapsed' = [elapsed EXCEPT ![w] = @ + 1]
    /\ UNCHANGED <<redisVars, spc, wpc, wto, pollAt, wret, wres, roundVars, nonChanVars>>

\* get_message returns a broadcast message
PollMessage(w) ==
    /\ wpc[w] = "poll" /\ ~ack[w] /\ inbox[w] > 0
    /\ inbox' = [inbox EXCEPT ![w] = @ - 1]
    /\ wpc' = [wpc EXCEPT ![w] = "delm"]
    /\ UNCHANGED <<flag, sub, ack, spc, wto, elapsed, pollAt, wret, wres,
                   roundVars, nonChanVars>>

\* get_message returns None: it read the ignored subscribe confirmation, or
\* its timeout passed
PollNone(w) ==
    /\ wpc[w] = "poll"
    /\ \/ ack[w]
       \/ inbox[w] = 0 /\ elapsed[w] - pollAt[w] >= PollTimeout(wto[w], pollAt[w])
    /\ ack' = [ack EXCEPT ![w] = FALSE]
    /\ wpc' = [wpc EXCEPT ![w] = "get2"]
    /\ UNCHANGED <<flag, sub, inbox, spc, wto, elapsed, pollAt, wret, wres,
                   roundVars, nonChanVars>>

\* the fallback r.get(key), then the top of the loop
SecondGet(w) ==
    /\ wpc[w] = "get2"
    /\ pollAt' = [pollAt EXCEPT ![w] = elapsed[w]]
    /\ IF FallbackGet(flag)
       THEN wpc' = [wpc EXCEPT ![w] = "del2"] /\ wret' = wret
       ELSE IF TimedOut(wto[w], elapsed[w])
            THEN wpc' = [wpc EXCEPT ![w] = "unsub"] /\ wret' = [wret EXCEPT ![w] = FALSE]
            ELSE wpc' = [wpc EXCEPT ![w] = "poll"] /\ wret' = wret
    /\ UNCHANGED <<redisVars, spc, wto, elapsed, wres, roundVars, nonChanVars>>

\* finally: pubsub.unsubscribe(channel), pubsub.close(); the call returns
Unsubscribe(w) ==
    /\ wpc[w] = "unsub"
    /\ sub' = [sub EXCEPT ![w] = FALSE]
    /\ ack' = [ack EXCEPT ![w] = FALSE]
    /\ inbox' = [inbox EXCEPT ![w] = 0]
    /\ wres' = [wres EXCEPT ![w] = Append(@, wret[w])]
    /\ wpc' = [wpc EXCEPT ![w] = "idle"]
    /\ UNCHANGED <<flag, spc, wto, elapsed, pollAt, wret, roundVars, nonChanVars>>

\* ------------------------------------------- run_from_agent, await by await
\* GenerationOrchestrator.agents, by name
Agents == <<"onboarding", "director", "scriptwriter", "character_artist",
            "storyboard_artist", "video_generator", "video_merger", "review">>
\* an index that is one too far
AgentIndexNext(a) ==
    LET k == CHOOSE j \in 1..Len(Agents) : Agents[j] = a
    IN IF k < Len(Agents) THEN k + 1 ELSE k
\* _agent_index(agent_name), counted from 1
AgentIndex(a) == CHOOSE j \in 1..Len(Agents) : Agents[j] = a
IsNotReview(a) == a # "review"
\* a plan that keeps the review agent
PlanWithReview(a) == SubSeq(Agents, AgentIndex(a), Len(Agents))
\* plan = [a.name for a in self.agents[start_idx:] if a.name != "review"]
PlanFrom(a) == SelectSeq(SubSeq(Agents, AgentIndex(a), Len(Agents)), IsNotReview)
\* agent = self.agents[self._agent_index(plan[i])]
Executor(plan, i) == Agents[AgentIndex(plan[i + 1])]
\* review.py: ALLOWED_START_AGENTS, the start agents ReviewAgent.run returns
AllowedStartAgents == {"scriptwriter", "character_artist", "storyboard_artist",
                       "video_generator", "video_merger"}
Modes == {"full", "incremental"}

\* progress values are fractions <<numerator, denominator>>
FracLeq(p, q) == p[1] * q[2] <= q[1] * p[2]
ProgressStarted == <<1, 100>>
ProgressZero == <<0, 1>>
ProgressDone == <<1, 1>>
Max(a, b) == IF a >= b THEN a ELSE b
\* progress = i / max(len(plan), 1)
StageProgress(i, plan) == <<i, Max(Len(plan), 1)>>

\* the first stage start after a feedback-driven re-plan, or the review
\* stage of a feedback run: the updates that reset the progress
IsReplanReset ==
    \/ tpc[Orun] = "started" /\ oname = "review"
    \/ tpc[Orun] = "loop" /\ oi = 0 /\ (kind[Orun] = "feedback" \/ oreplans > 0)

\* _set_run(run, status="running", current_agent="orchestrator",
\* progress=0.01, error=None), then run_started, _log and the read of the
\* last feedback id
RunSetRunning(auto) ==
    /\ IsOrch(Orun) /\ tpc[Orun] = "loaded" /\ ~tcancel[Orun]
    /\ kind[Orun] = "feedback" => ~auto
    /\ rstatus' = [rstatus EXCEPT ![Orun] = OrmWrite(Orun, "running")]
    /\ mem' = [mem EXCEPT ![Orun] = OrmWrite(Orun, "running")]
    /\ ragent' = [ragent EXCEPT ![Orun] = "orchestrator"]
    /\ rprog' = [rprog EXCEPT ![Orun] = ProgressStarted]
    /\ rerror' = [rerror EXCEPT ![Orun] = "none"]
    /\ oname' = IF kind[Orun] = "feedback" THEN "review" ELSE Agents[1]
    /\ omode' = "full"
    /\ oauto' = auto
    /\ flast' = fbMsgs[Orun]
    /\ tpc' = [tpc EXCEPT ![Orun] = "started"]
    /\ UNCHANGED <<scope, kind, fbMsgs, hpc, tcancel, tasks, cancelVars,
                   histVars, chanVars, invVars, sweepVars, flowVars, svcVars, delVars,
                   fflag, fpend, fended, fhist, wspc, fcount, planHist,
                   oplan, oi, operr, oreplans, orchHist>>

\* agent_name == "review": the latest user message of the run becomes
\* ctx.user_feedback, then _set_run(current_agent="review", progress=0.0)
RunReviewStart ==
    /\ tpc[Orun] = "started" /\ oname = "review" /\ ~tcancel[Orun]
    /\ fhist' = IF fbMsgs[Orun] > 0 THEN Append(fhist, fbMsgs[Orun]) ELSE fhist
    /\ mem' = [mem EXCEPT ![Orun] = rstatus[Orun]]
    /\ ragent' = [ragent EXCEPT ![Orun] = "review"]
    /\ rprog' = [rprog EXCEPT ![Orun] = ProgressZero]
    /\ tpc' = [tpc EXCEPT ![Orun] = "review"]
    /\ UNCHANGED <<dbVars, hpc, tcancel, tasks, cancelVars, histVars,
                   chanVars, invVars, sweepVars, flowVars, svcVars, delVars,
                   flast, fflag, fpend, fended, wspc, fcount, planHist,
                   rerror, loopVars, orchHist>>

\* review_agent.run returned its routing: agent_name and ctx.rerun_mode are
\* set and the routing is logged
RunRoute(a, m) ==
    /\ tpc[Orun] = "review" /\ ~tcancel[Orun]
    /\ oname' = a
    /\ omode' = m
    /\ orouted' = <<a, m>>
    /\ ocleaned' = <<>>
    /\ tpc' = [tpc EXCEPT ![Orun] = "routed"]
    /\ UNCHANGED <<dbVars, hpc, tcancel, mem, tasks, cancelVars, histVars,
                   chanVars, invVars, sweepVars, flowVars, svcVars, delVars, fbVars,
                   runVars, oplan, oi, oauto, operr, oreplans, orchHist>>

\* _cleanup_for_rerun(project_id, agent_name, mode), the refresh of the
\* project and the plan built from agent_name; the cursor starts at 0
RunCleanup ==
    /\ \/ tpc[Orun] = "started" /\ oname # "review"
       \/ tpc[Orun] = "routed"
    /\ ~tcancel[Orun]
    /\ oplan' = PlanFrom(oname)
    /\ oi' = 0
    /\ ostarted' = -1
    /\ olog' = <<>>
    /\ owaits' = 0
    /\ owok' = 0
    /\ ocleaned' = Append(ocleaned, <<oname, omode>>)
    /\ tpc' = [tpc EXCEPT ![Orun] = "loop"]
    /\ UNCHANGED <<dbVars, hpc, tcancel, mem, tasks, cancelVars, histVars,
                   chanVars, invVars, sweepVars, svcVars, delVars, fbVars, orouted,
                   pstatus, oraised, orej, runVars, oname,
                   omode, oauto, operr, oreplans, oexec, otimedout, cwait>>

\* the handoff event and _set_run(current_agent=agent.name,
\* progress=i / max(len(plan), 1)) of stage i
RunStageStart ==
    /\ tpc[Orun] = "loop" /\ oi < Len(oplan) /\ ~tcancel[Orun]
    /\ mem' = [mem EXCEPT ![Orun] = rstatus[Orun]]
    /\ ragent' = [ragent EXCEPT ![Orun] = Executor(oplan, oi)]
    /\ rprog' = [rprog EXCEPT ![Orun] = StageProgress(oi, oplan)]
    /\ ostarted' = oi
    /\ oexec' = "none"
    /\ tpc' = [tpc EXCEPT ![Orun] = "stage"]
    /\ UNCHANGED <<dbVars, hpc, tcancel, tasks, cancelVars, histVars,
                   chanVars, restVars, rerror, loopVars, otimedout, cwait>>

\* the values of project_update.status in the output of the director's and
\* the scriptwriter's model call; "none": no usable status in the output
LlmStatuses == {"none", "scripted"}
\* Project.status after the executor returned: onboarding sets "planning",
\* director and scriptwriter set the status of their output, the others
\* set none; after the last stage of the plan the orchestrator sets "ready"
StageStatus(name, cur, llm, last) ==
    IF last THEN "ready"
    ELSE IF name = "onboarding" THEN "planning"
    ELSE IF name \in {"director", "scriptwriter"} /\ llm # "none" THEN llm
    ELSE cur

\* a checkpoint after every stage but the last, unattended or not
OpensCheckpointAlways(auto, i, plan) == i < Len(plan) - 1
\* if not auto_mode and i < (len(plan) - 1)
OpensCheckpoint(auto, i, plan) == ~auto /\ i < Len(plan) - 1

\* agent.run(ctx) returned (and, after the last stage, the commit of the
\* project's status): a checkpoint follows unless the run is unattended or
\* the stage was the last one, else the cursor advances
RunStage(llm) ==
    /\ tpc[Orun] = "stage" /\ ~tcancel[Orun]
    /\ oexec' = Executor(oplan, oi)
    /\ olog' = Append(olog, Executor(oplan, oi))
    /\ pstatus' = StageStatus(Executor(oplan, oi), pstatus, llm,
                              oi = Len(oplan) - 1)
    /\ IF OpensCheckpoint(oauto, oi, oplan)
       THEN /\ oi' = oi
            /\ owaits' = owaits + 1
            /\ tpc' = [tpc EXCEPT ![Orun] = "confirm"]
       ELSE /\ oi' = oi + 1
            /\ owaits' = owaits
            /\ tpc' = [tpc EXCEPT ![Orun] =
                         IF oi + 1 < Len(oplan) THEN "loop" ELSE "finish"]
    /\ UNCHANGED <<dbVars, hpc, tcancel, mem, tasks, cancelVars, histVars,
                   chanVars, invVars, sweepVars, svcVars, routeVars,
                   owok, oraised, orej, runVars, oplan,
                   oname, omode, oauto, operr, oreplans, ostarted, otimedout,
                   cwait>>

\* _wait_for_confirm: wait_for_confirm_redis returned ok. False raises the
\* timeout error; True with a new feedback message hands over to the review
\* agent; True without one advances the cursor
RunWait(ok, fb) ==
    /\ tpc[Orun] = "confirm" /\ ~tcancel[Orun]
    /\ fb => (ok /\ oreplans < MaxReplans)
    /\ IF ~ok
       THEN /\ otimedout' = TRUE
            /\ operr' = "timeout"
            /\ tpc' = [tpc EXCEPT ![Orun] = "fail"]
            /\ UNCHANGED <<oi, oreplans, owok>>
       ELSE IF fb
       THEN /\ oreplans' = oreplans + 1
            /\ owok' = owok + 1
            /\ tpc' = [tpc EXCEPT ![Orun] = "review"]
            /\ UNCHANGED <<oi, operr, otimedout>>
       ELSE /\ oi' = oi + 1
            /\ owok' = owok + 1
            /\ tpc' = [tpc EXCEPT ![Orun] = "loop"]
            /\ UNCHANGED <<operr, oreplans, otimedout>>
    /\ UNCHANGED <<dbVars, hpc, tcancel, mem, tasks, cancelVars, histVars,
                   chanVars, invVars, sweepVars, svcVars, routeVars,
                   pstatus, olog, owaits, oraised, orej,
                   runVars, oplan, oname, omode, oauto, ostarted, oexec, cwait>>

\* ws_projects receives a confirm message for the run: a message with
\* feedback text is stored as a user AgentMessage and committed first
WsStore ==
    /\ wspc = "idle" /\ fcount < MaxConfirms
    /\ kind[Orun] # "none"
    /\ fcount' = fcount + 1
    /\ fbMsgs' = [fbMsgs EXCEPT ![Orun] = @ + 1]
    /\ wspc' = "stored"
    /\ UNCHANGED <<rstatus, scope, kind, hpc, tpc, tcancel, mem, tasks,
                   cancelVars, histVars, chanVars, orchVars, invVars,
                   sweepVars, flowVars, svcVars, delVars, flast, fflag, fpend, fended,
                   fhist, planHist>>

\* trigger_confirm_redis(run_id): after the stored feedback (text), or at
\* once for a confirm message without feedback
WsTrigger(text) ==
    /\ IF text THEN wspc = "stored"
       ELSE wspc = "idle" /\ fcount < MaxConfirms /\ kind[Orun] # "none"
    /\ fcount' = IF text THEN fcount ELSE fcount + 1
    /\ fflag' = TRUE
    /\ fpend' = fpend \cup {IF text THEN "text" ELSE "plain"}
    /\ wspc' = "idle"
    /\ UNCHANGED <<admVars, chanVars, orchVars, invVars, sweepVars, flowVars,
                   svcVars, delVars, flast, fended, fhist, planHist>>

\* _wait_for_confirm: clear_confirm_event_redis(run_id), then the
\* run_awaiting_confirm event
FbClear ==
    /\ tpc[Orun] = "confirm" /\ ~tcancel[Orun]
    /\ fflag' = FALSE
    /\ fpend' = {}
    /\ tpc' = [tpc EXCEPT ![Orun] = "waiting"]
    /\ UNCHANGED <<dbVars, hpc, tcancel, mem, tasks, cancelVars, histVars,
                   chanVars, orchVars, invVars, sweepVars, flowVars, svcVars, delVars,
                   flast, fended, fhist, wspc, fcount, planHist>>

\* a wait that returns only when the flag is set
WaitResultNoTimeout(ok, isSet) == ok /\ isSet
\* wait_for_confirm_redis returns True when it finds the flag and False
\* when its deadline passes without one
WaitResult(ok, isSet) == ok = isSet

\* wait_for_confirm_redis found the flag and deleted it (True), or timed out
\* without one (False, which raises the timeout error)
FbWait(ok) ==
    /\ tpc[Orun] = "waiting" /\ ~tcancel[Orun]
    /\ WaitResult(ok, fflag)
    /\ IF ok
       THEN /\ fflag' = FALSE
            /\ fended' = fpend
            /\ fpend' = {}
            /\ owok' = owok + 1
            /\ tpc' = [tpc EXCEPT ![Orun] = "confirmed"]
            /\ UNCHANGED <<operr, otimedout>>
       ELSE /\ otimedout' = TRUE
            /\ operr' = "timeout"
            /\ tpc' = [tpc EXCEPT ![Orun] = "fail"]
            /\ UNCHANGED <<fflag, fended, fpend, owok>>
    /\ UNCHANGED <<dbVars, hpc, tcancel, mem, tasks, cancelVars, histVars,
                   chanVars, invVars, sweepVars, svcVars, delVars, pstatus, olog,
                   owaits, oraised, orej, flast, fhist, wspc, fcount,
                   planHist, runVars, oplan, oi, oname, omode, oauto,
                   oreplans, ostarted, oexec, cwait>>

\* msg.id != self._last_user_feedback_id
IsNewFeedback(msg, last) == msg > 0 /\ msg # last

\* the run_confirmed event, the commit and the read of the latest user
\* message of the run: a message that is not the last one consumed is
\* returned as feedback and handed to the review agent, otherwise the
\* cursor advances
FbRead ==
    /\ tpc[Orun] = "confirmed" /\ ~tcancel[Orun]
    /\ IF IsNewFeedback(fbMsgs[Orun], flast)
       THEN /\ flast' = fbMsgs[Orun]
            /\ fhist' = Append(fhist, fbMsgs[Orun])
            /\ oreplans' = oreplans + 1
            /\ tpc' = [tpc EXCEPT ![Orun] = "review"]
            /\ oi' = oi
       ELSE /\ oi' = oi + 1
            /\ tpc' = [tpc EXCEPT ![Orun] = "loop"]
            /\ UNCHANGED <<flast, fhist, oreplans>>
    /\ UNCHANGED <<dbVars, hpc, tcancel, mem, tasks, cancelVars, histVars,
                   chanVars, invVars, sweepVars, flowVars, svcVars, delVars, fflag,
                   fpend, fended, wspc, fcount, planHist, runVars, oplan,
                   oname, omode, oauto, operr, orchHist>>

\* an await inside the try block raises an Exception: a stage executor, the
\* review agent, a database or Redis call
RunRaise ==
    /\ IsOrch(Orun) /\ tpc[Orun] \in TryPositions /\ ~tcancel[Orun]
    /\ operr' = "exception"
    /\ oraised' = tpc[Orun]
    /\ tpc' = [tpc EXCEPT ![Orun] = "fail"]
    /\ UNCHANGED <<dbVars, hpc, tcancel, mem, tasks, cancelVars, histVars,
                   chanVars, invVars, sweepVars, svcVars, routeVars,
                   pstatus, olog, owaits, owok, orej,
                   runVars, oplan, oi, oname, omode, oauto, oreplans, orchHist>>

\* delete_project, while the task of the project's run is at an await of
\* its try block: the queued and running AgentRun rows are updated to
\* "cancelled", the files and then the Message, AgentMessage, AgentRun,
\* Shot, Scene, Character and Project rows are deleted, and the session
\* commits. The handler makes no call to task_manager
DeleteProject ==
    /\ ~pdel
    /\ IsOrch(Orun) /\ tpc[Orun] \in TryPositions
    /\ pdel' = TRUE
    /\ rstatus' = [r \in RunIds |-> "absent"]
    /\ fbMsgs' = [r \in RunIds |-> 0]
    /\ UNCHANGED <<scope, kind, hpc, tpc, tcancel, mem, tasks, cancelVars,
                   histVars, chanVars, orchVars, invVars, sweepVars,
                   flowVars, svcVars, fbVars, planHist, oresumed>>

\* the task after the deletion: no CancelledError is pending, so the await
\* it was suspended in returns and the coroutine runs on; its next commit on
\* a deleted row raises, except Exception sends run_failed and the finally
\* blocks end the task
RunAfterDelete ==
    /\ pdel
    /\ tpc[Orun] \in TryPositions /\ ~tcancel[Orun]
    /\ oresumed' = TRUE
    /\ operr' = "exception"
    /\ oraised' = tpc[Orun]
    /\ sent' = sent \cup {<<"run_failed", Orun>>}
    /\ tpc' = [tpc EXCEPT ![Orun] = "done"]
    /\ Remove
    /\ UNCHANGED <<dbVars, hpc, tcancel, mem, cancelVars, lastReg, preempted,
                   chanVars, invVars, sweepVars, svcVars, fbVars, planHist,
                   pdel, pstatus, olog, owaits, owok, orej,
                   runVars, oplan, oi, oname, omode, oauto, oreplans, orchHist>>

\* the status, current_agent, progress and error of the AgentRun row
RunState(r) == <<rstatus[r], ragent[r], rprog[r], rerror[r]>>

\* run_from_agent is called with an agent_name that names no agent:
\* _agent_index raises ValueError("Unknown agent") as the first statement of
\* the try block, before _set_run(status="running")
RunUnknownAgent ==
    /\ IsOrch(Orun) /\ tpc[Orun] = "loaded" /\ ~tcancel[Orun]
    /\ oname' = "unknown"
    /\ operr' = "unknown_agent"
    /\ orej' = RunState(Orun)
    /\ tpc' = [tpc EXCEPT ![Orun] = "fail"]
    /\ UNCHANGED <<dbVars, hpc, tcancel, mem, tasks, cancelVars, histVars,
                   chanVars, invVars, sweepVars, svcVars, routeVars,
                   pstatus, olog, owaits, owok,
                   oraised, runVars, oplan, oi, omode, oauto, oreplans, orchHist>>

\* _set_run(run, status="succeeded", current_agent=None, progress=1.0)
RunFinish ==
    /\ tpc[Orun] = "finish" /\ ~tcancel[Orun]
    /\ rstatus' = [rstatus EXCEPT ![Orun] = OrmWrite(Orun, "succeeded")]
    /\ mem' = [mem EXCEPT ![Orun] = OrmWrite(Orun, "succeeded")]
    /\ ragent' = [ragent EXCEPT ![Orun] = "none"]
    /\ rprog' = [rprog EXCEPT ![Orun] = ProgressDone]
    /\ ostarted' = -1
    /\ tpc' = [tpc EXCEPT ![Orun] = "exit_completed"]
    /\ UNCHANGED <<scope, kind, fbMsgs, hpc, tcancel, tasks, cancelVars,
                   histVars, chanVars, restVars, rerror, loopVars, oexec, otimedout,
                   cwait>>

\* except Exception: session.rollback(), _log("Run failed")
RunFailLog ==
    /\ tpc[Orun] = "fail" /\ ~tcancel[Orun]
    /\ tpc' = [tpc EXCEPT ![Orun] = "fail_set"]
    /\ UNCHANGED <<dbVars, hpc, tcancel, mem, tasks, cancelVars, histVars,
                   nonAdmVars>>

\* a failure that is recorded without its message
ErrorTextLost(e) == "exception"
\* str(e): the message of the timeout names the timeout
ErrorText(e) == e

\* except Exception: _set_run(run, status="failed", error=str(e))
RunFailSet ==
    /\ tpc[Orun] = "fail_set" /\ ~tcancel[Orun]
    /\ rstatus' = [rstatus EXCEPT ![Orun] = OrmWrite(Orun, "failed")]
    /\ mem' = [mem EXCEPT ![Orun] = OrmWrite(Orun, "failed")]
    /\ rerror' = [rerror EXCEPT ![Orun] = ErrorText(operr)]
    /\ ostarted' = -1
    /\ tpc' = [tpc EXCEPT ![Orun] = "exit_failed"]
    /\ UNCHANGED <<scope, kind, fbMsgs, hpc, tcancel, tasks, cancelVars,
                   histVars, chanVars, restVars, ragent, rprog, loopVars, oexec,
                   otimedout, cwait>>

\* ------------------------------------------- the project's rows and files
CharIds == 1..MaxChars
SceneIds == 1..MaxScenes
ShotIds == 1..MaxShotRows
NoScene == 0

\* URLs and paths are sequences of characters; a NULL column is NoUrl
NoUrl == <<>>
StaticPrefix == <<"/", "s", "t", "a", "t", "i", "c", "/">>
ImagesDir == <<"i", "m", "a", "g", "e", "s", "/">>
VideosDir == <<"v", "i", "d", "e", "o", "s", "/">>
ExternalPrefix == <<"h", "t", "t", "p", "s", ":", "/", "/">>
Digits == <<"0", "1", "2", "3", "4", "5", "6", "7", "8", "9">>
\* a file name that is unique to the row (tag, n)
FileName(tag, n) == <<tag, Digits[n + 1]>>
\* the URL an image or video service hands out
ExternalUrl(tag, n) == ExternalPrefix \o FileName(tag, n)
\* cache_external_image saves STATIC_DIR/images/<filename> and returns
\* /static/images/<filename>
CachedImageUrl(tag, n) == StaticPrefix \o ImagesDir \o FileName(tag, n)
\* merge_videos writes STATIC_DIR/videos/<name>.mp4 and returns
\* /static/videos/<name>.mp4
MergedVideoUrl(n) == StaticPrefix \o VideosDir \o FileName("p", n)
\* the path, relative to STATIC_DIR, of the file a local URL was saved at
SavedPath(url) == SubSeq(url, Len(StaticPrefix) + 1, Len(url))

StartsWith(u, p) == Len(u) >= Len(p) /\ SubSeq(u, 1, Len(p)) = p
\* is_local_file(url)
IsLocalFile(url) == url # NoUrl /\ StartsWith(url, StaticPrefix)
\* str.lstrip(chars): drops leading characters while they are in chars
RECURSIVE Lstrip(_, _)
Lstrip(u, chars) ==
    IF u # <<>> /\ Head(u) \in chars THEN Lstrip(Tail(u), chars) ELSE u
\* the characters of the argument "/static/"
StripChars == {StaticPrefix[k] : k \in 1..Len(StaticPrefix)}
\* get_local_path(url), relative to STATIC_DIR
GetLocalPath(url) == Lstrip(url, StripChars)
\* delete_file(url): fs after the call; os.remove raises OSError on the
\* paths in fail
DeleteFile(url, fs, fail) ==
    IF url = NoUrl THEN fs
    ELSE IF ~IsLocalFile(url) THEN fs
    ELSE IF GetLocalPath(url) \notin fs THEN fs
    ELSE IF GetLocalPath(url) \in fail THEN fs
    ELSE fs \ {GetLocalPath(url)}
\* delete_files(urls)
RECURSIVE DeleteFiles(_, _, _)
DeleteFiles(urls, fs, fail) ==
    IF urls = {} THEN fs
    ELSE LET u == CHOOSE v \in urls : TRUE
         IN DeleteFiles(urls \ {u}, DeleteFile(u, fs, fail), fail)
\* the paths on which os.remove was called and raised
RemoveFailed(urls, fs, fail) ==
    {GetLocalPath(u) : u \in {v \in urls : IsLocalFile(v)}} \cap fs \cap fail

EmptyProject ==
    [characters |-> {}, scenes |-> {}, shots |-> {},
     character_image |-> [c \in CharIds |-> NoUrl],
     shot_scene |-> [s \in ShotIds |-> NoScene],
     shot_image |-> [s \in ShotIds |-> NoUrl],
     shot_video |-> [s \in ShotIds |-> NoUrl],
     project_video |-> NoUrl]

\* the rows of a with the characters cs, the scenes xs, the shots ss removed
DropCharacters(a, cs) ==
    [a EXCEPT !.characters = @ \ cs,
              !.character_image = [c \in CharIds |-> IF c \in cs THEN NoUrl ELSE @[c]]]
DropScenes(a, xs) == [a EXCEPT !.scenes = @ \ xs]
DropShots(a, ss) ==
    [a EXCEPT !.shots = @ \ ss,
              !.shot_scene = [s \in ShotIds |-> IF s \in ss THEN NoScene ELSE @[s]],
              !.shot_image = [s \in ShotIds |-> IF s \in ss THEN NoUrl ELSE @[s]],
              !.shot_video = [s \in ShotIds |-> IF s \in ss THEN NoUrl ELSE @[s]]]
\* the shots of the project: those whose scene is a scene of the project
ProjectShots(a) == {s \in a.shots : a.shot_scene[s] \in a.scenes}
\* the populated URL columns of the characters cs and the shots ss
RowUrls(a, cs, ss) ==
    ({a.character_image[c] : c \in cs} \cup {a.shot_image[s] : s \in ss}
        \cup {a.shot_video[s] : s \in ss}) \ {NoUrl}

\* _delete_project_shots, _delete_project_scenes, _delete_project_characters
DeleteProjectShots(a) == DropShots(a, ProjectShots(a))
DeleteProjectScenes(a) == DropScenes(a, a.scenes)
\* a delete that matches no character
DeleteNoCharacters(a) == a
DeleteProjectCharacters(a) == DropCharacters(a, a.characters)
\* _clear_character_images, _clear_shot_images, _clear_shot_videos,
\* _clear_project_video: the rows after the call
ClearCharacterImages(a) ==
    [a EXCEPT !.character_image = [c \in CharIds |-> NoUrl]]
\* a clear of the shot images that takes the character images with it
ClearAllImages(a) ==
    [a EXCEPT !.shot_image = [s \in ShotIds |-> NoUrl],
              !.character_image = [c \in CharIds |-> NoUrl]]
ClearShotImages(a) ==
    [a EXCEPT !.shot_image =
        [s \in ShotIds |-> IF s \in ProjectShots(a) THEN NoUrl ELSE @[s]]]
ClearShotVideos(a) ==
    [a EXCEPT !.shot_video =
        [s \in ShotIds |-> IF s \in ProjectShots(a) THEN NoUrl ELSE @[s]]]
ClearProjectVideo(a) == [a EXCEPT !.project_video = NoUrl]
\* the URLs those calls hand to delete_files / delete_file
CharacterImageUrls(a) == {a.character_image[c] : c \in a.characters}
ShotImageUrls(a) == {a.shot_image[s] : s \in ProjectShots(a)}
ShotVideoUrls(a) == {a.shot_video[s] : s \in ProjectShots(a)}
ProjectVideoUrls(a) == {a.project_video}

StructuralAgents == {"onboarding", "director", "scriptwriter"}
\* _cleanup_for_rerun(project_id, start_agent, mode): the rows after it
CleanupRows(a, start, mode) ==
    IF mode = "incremental"
    THEN CASE start \in StructuralAgents ->
                ClearProjectVideo(ClearShotVideos(ClearShotImages(
                    ClearCharacterImages(a))))
           [] start = "character_artist" ->
                ClearProjectVideo(ClearShotVideos(ClearShotImages(
                    ClearCharacterImages(a))))
           [] start = "storyboard_artist" ->
                ClearProjectVideo(ClearShotVideos(ClearShotImages(a)))
           [] start = "video_generator" ->
                ClearProjectVideo(ClearShotVideos(a))
           [] start = "video_merger" -> ClearProjectVideo(a)
    ELSE CASE start \in StructuralAgents ->
                ClearProjectVideo(DeleteProjectCharacters(DeleteProjectScenes(
                    DeleteProjectShots(a))))
           [] start = "character_artist" ->
                ClearProjectVideo(ClearShotVideos(ClearShotImages(
                    ClearCharacterImages(a))))
           [] start = "storyboard_artist" ->
                ClearProjectVideo(ClearShotVideos(ClearShotImages(a)))
           [] start = "video_generator" ->
                ClearProjectVideo(ClearShotVideos(a))
           [] start = "video_merger" -> ClearProjectVideo(a)
\* the URLs _cleanup_for_rerun hands to the file cleaner
CleanupUrls(a, start, mode) ==
    IF mode = "full" /\ start \in StructuralAgents
    THEN ProjectVideoUrls(a)
    ELSE CASE start \in StructuralAgents \cup {"character_artist"} ->
                CharacterImageUrls(a) \cup ShotImageUrls(a)
                    \cup ShotVideoUrls(a) \cup ProjectVideoUrls(a)
           [] start = "storyboard_artist" ->
                ShotImageUrls(a) \cup ShotVideoUrls(a) \cup ProjectVideoUrls(a)
           [] start = "video_generator" ->
                ShotVideoUrls(a) \cup ProjectVideoUrls(a)
           [] start = "video_merger" -> ProjectVideoUrls(a)
\* cleared_types
ClearedTypes(start, mode) ==
    IF mode = "full" /\ start \in StructuralAgents
    THEN <<"characters", "scenes", "shots">>
    ELSE <<>>

\* preserve_ids of the scriptwriter's output
NoPreserve == [characters |-> {}, scenes |-> {}, shots |-> {}]
\* _apply_incremental_changes: the rows it deletes
\* a loop that stops after the first character it deletes
DeletedCharactersOne(a, p) ==
    LET d == {c \in a.characters : c \notin p.characters}
    IN IF d = {} THEN {} ELSE {CHOOSE c \in d : \A e \in d : c <= e}
DeletedCharacters(a, p) == {c \in a.characters : c \notin p.characters}
DeletedScenes(a, p) == {x \in a.scenes : x \notin p.scenes}
DeletedShots(a, p) ==
    {s \in ProjectShots(a) :
        \/ a.shot_scene[s] \notin p.scenes
        \/ s \notin p.shots}
ApplyDeletes(a, p) ==
    DropScenes(DropShots(DropCharacters(a, DeletedCharacters(a, p)),
                         DeletedShots(a, p)),
               DeletedScenes(a, p))
\* the rows the scriptwriter inserts: characters cs, scenes xs and the
\* shots of the domain of sc, sc[s] being the scene of shot s
InsertRows(a, cs, xs, sc) ==
    [a EXCEPT !.characters = @ \cup cs,
              !.scenes = @ \cup xs,
              !.shots = @ \cup DOMAIN sc,
              !.shot_scene = [s \in ShotIds |-> IF s \in DOMAIN sc THEN sc[s] ELSE @[s]]]
\* the ids n consecutive inserts get
NewIds(next, n) == next..(next + n - 1)

\* a stage of the plan returned: the cursor moves on, and after the last
\* stage the run is over
StageReturns ==
    /\ ii' = ii + 1
    /\ istaged' = istaged + 1
    /\ ipc' = IF ii + 1 = Len(iplan) THEN "idle" ELSE "loop"
    /\ UNCHANGED <<istart, imode, iplan, ireplans, pre, notified>>
AtStage(name) ==
    /\ ipc = "loop" /\ ii < Len(iplan)
    /\ Executor(iplan, ii) = name

\* ctx.target_ids of run_from_agent: the AgentContext is built without
\* target ids and the routing's target_ids are not copied into it
CtxTargetIds == {}
\* if ctx.target_ids and ctx.target_ids.shot_ids:
\*     query = query.where(Shot.id.in_(ctx.target_ids.shot_ids))
FilterTargets(rows, ids) == IF ids # {} THEN rows \cap ids ELSE rows

\* a generate request starts the plan at agents[0] in full mode; a
\* feedback, at a checkpoint or on the feedback endpoint, is routed by the
\* review agent to a start agent, a mode and target shot ids, which name
\* shots of the project state the review agent was shown
InvRoute(a, m, ids) ==
    /\ \/ ipc = "idle"
       \/ ipc = "loop" /\ ii >= 1
    /\ IF istart = "none"
       THEN /\ a = Agents[1] /\ m = "full" /\ ids = {}
            /\ ireplans' = ireplans
       ELSE /\ a \in AllowedStartAgents /\ ids \subseteq art.shots
            /\ ireplans < MaxReplans /\ ireplans' = ireplans + 1
    /\ istart' = a
    /\ imode' = m
    /\ itargets' = ids
    /\ ipc' = "routed"
    /\ UNCHANGED <<art, nextId, files, iplan, ii, pre, ipreserve, iapplied,
                   istaged, notified, dropped, rmfailed, imade,
                   nonInvVars>>

\* _cleanup_for_rerun, its commit and its data_cleared event, then the plan;
\* failing: os.remove raises OSError on every file
InvCleanup(failing) ==
    /\ ipc = "routed"
    /\ pre' = art
    /\ art' = CleanupRows(art, istart, imode)
    /\ LET urls == CleanupUrls(art, istart, imode)
           fail == IF failing THEN files ELSE {}
       IN /\ files' = DeleteFiles(urls, files, fail)
          /\ rmfailed' = rmfailed \cup RemoveFailed(urls, files, fail)
    /\ dropped' = dropped \cup
            {u \in RowUrls(art, art.characters \ art'.characters,
                           art.shots \ art'.shots) : IsLocalFile(u)}
    /\ notified' = IF ClearedTypes(istart, imode) # <<>> THEN 1 ELSE 0
    /\ iplan' = PlanFrom(istart)
    /\ ii' = 0
    /\ istaged' = 0
    /\ iapplied' = "no"
    /\ ipreserve' = NoPreserve
    /\ imade' = {}
    /\ ipc' = "loop"
    /\ UNCHANGED <<nextId, istart, imode, ireplans, itargets, nonInvVars>>

\* OnboardingAgent.run and DirectorAgent.run write no Character, Scene or
\* Shot row
InvOutline ==
    /\ AtStage("onboarding") \/ AtStage("director")
    /\ StageReturns
    /\ UNCHANGED <<art, nextId, files, ipreserve, iapplied, dropped,
                   rmfailed, tgtVars,
                   nonInvVars>>

\* the scriptwriter's output: nc new characters, ns new scenes, nsh new
\* shots, as far as the ids of the tables reach
Outputs ==
    {o \in [nc : 0..MaxChars, ns : 0..MaxScenes, nsh : 0..MaxShotRows] :
        /\ nextId.characters + o.nc - 1 <= MaxChars
        /\ nextId.scenes + o.ns - 1 <= MaxScenes
        /\ nextId.shots + o.nsh - 1 <= MaxShotRows}
NextIds(o) ==
    [characters |-> nextId.characters + o.nc,
     scenes |-> nextId.scenes + o.ns,
     shots |-> nextId.shots + o.nsh]

\* ScriptwriterAgent.run in full mode: the characters, the scenes (one at
\* least, or the stage raises) and the shots of the output are inserted
InvScriptwriterFull ==
    /\ AtStage("scriptwriter") /\ imode = "full"
    /\ \E o \in Outputs :
        /\ o.ns >= 1
        /\ \E sc \in [NewIds(nextId.shots, o.nsh) -> NewIds(nextId.scenes, o.ns)] :
                art' = InsertRows(art, NewIds(nextId.characters, o.nc),
                                  NewIds(nextId.scenes, o.ns), sc)
        /\ nextId' = NextIds(o)
    /\ StageReturns
    /\ UNCHANGED <<files, ipreserve, iapplied, dropped, rmfailed, tgtVars,
                   nonInvVars>>

\* preserve_ids of the output, over the rows that exist
PreserveSets(a) ==
    [characters : SUBSET a.characters, scenes : SUBSET a.scenes,
     shots : SUBSET a.shots]

\* ScriptwriterAgent.run in incremental mode: _apply_incremental_changes
\* deletes by the preserve_ids p of the output, then inserts the new
\* characters, the new scenes and the new shots (of new scenes or of scenes
\* that are kept)
InvScriptwriterIncremental ==
    /\ AtStage("scriptwriter") /\ imode = "incremental"
    /\ \E p \in PreserveSets(art), o \in Outputs :
        LET kept == ApplyDeletes(art, p)
        IN /\ \E sc \in [NewIds(nextId.shots, o.nsh) ->
                            kept.scenes \cup NewIds(nextId.scenes, o.ns)] :
                    art' = InsertRows(kept, NewIds(nextId.characters, o.nc),
                                      NewIds(nextId.scenes, o.ns), sc)
           /\ dropped' = dropped \cup
                    {u \in RowUrls(art, art.characters \ kept.characters,
                                   art.shots \ kept.shots) : IsLocalFile(u)}
           /\ nextId' = NextIds(o)
           /\ ipreserve' = p
           /\ iapplied' = IF o.nc + o.ns + o.nsh = 0 THEN "plain" ELSE "new"
    /\ StageReturns
    /\ UNCHANGED <<files, rmfailed, tgtVars,
                   nonInvVars>>

\* CharacterArtistAgent.run: the characters without an image get the URL
\* the image service returned
InvCharacterArtist ==
    /\ AtStage("character_artist")
    /\ art' = [art EXCEPT !.character_image =
                [c \in CharIds |->
                    IF c \in art.characters /\ @[c] = NoUrl
                    THEN ExternalUrl("c", c) ELSE @[c]]]
    /\ StageReturns
    /\ UNCHANGED <<nextId, files, ipreserve, iapplied, dropped, rmfailed,
                   tgtVars,
                   nonInvVars>>

\* The review agent and the three stages below select the project's shots
\* by Shot.project_id, a column the routes and ShotRead use as well and the
\* Shot class of models/project.py does not declare. The actions are what
\* the stages do where the column exists; where it does not the query
\* raises AttributeError, which is InvRaise.

\* StoryboardArtistAgent.run: the shots without a first frame get one, a
\* file under STATIC_DIR/images when settings.cache_generated_images
InvStoryboardArtist(cached) ==
    /\ AtStage("storyboard_artist")
    /\ LET todo == FilterTargets({s \in art.shots : art.shot_image[s] = NoUrl},
                                 CtxTargetIds)
       IN /\ imade' = imade \cup todo
          /\ art' = [art EXCEPT !.shot_image =
                    [s \in ShotIds |->
                        IF s \notin todo THEN @[s]
                        ELSE IF cached THEN CachedImageUrl("s", s)
                        ELSE ExternalUrl("s", s)]]
          /\ files' = IF cached
                      THEN files \cup {SavedPath(CachedImageUrl("s", s)) : s \in todo}
                      ELSE files
    /\ StageReturns
    /\ UNCHANGED <<nextId, ipreserve, iapplied, dropped, rmfailed, itargets,
                   nonInvVars>>

\* VideoGeneratorAgent.run: the shots without a video get the URL the video
\* service returned
InvVideoGenerator ==
    /\ AtStage("video_generator")
    /\ LET todo == FilterTargets({s \in art.shots : art.shot_video[s] = NoUrl},
                                 CtxTargetIds)
       IN /\ imade' = imade \cup todo
          /\ art' = [art EXCEPT !.shot_video =
                       [s \in ShotIds |->
                           IF s \in todo THEN ExternalUrl("v", s) ELSE @[s]]]
    /\ StageReturns
    /\ UNCHANGED <<nextId, files, ipreserve, iapplied, dropped, rmfailed,
                   itargets, nonInvVars>>

\* VideoMergerAgent.run: skipped when the project has a final video or no
\* shot has a video; one video is taken as it is, several are merged into
\* a file under STATIC_DIR/videos
InvVideoMerger ==
    /\ AtStage("video_merger")
    /\ LET vids == {s \in art.shots : art.shot_video[s] # NoUrl}
       IN IF art.project_video # NoUrl \/ vids = {}
          THEN art' = art /\ files' = files
          ELSE IF Cardinality(vids) = 1
          THEN /\ art' = [art EXCEPT !.project_video =
                            art.shot_video[CHOOSE s \in vids : TRUE]]
               /\ files' = files
          ELSE /\ art' = [art EXCEPT !.project_video = MergedVideoUrl(ireplans)]
               /\ files' = files \cup {SavedPath(MergedVideoUrl(ireplans))}
    /\ StageReturns
    /\ UNCHANGED <<nextId, ipreserve, iapplied, dropped, rmfailed, tgtVars,
                   nonInvVars>>

\* a stage raises: except Exception of run_from_agent ends the run
InvRaise ==
    /\ ipc = "loop" /\ ii < Len(iplan)
    /\ ipc' = "idle"
    /\ UNCHANGED <<art, nextId, files, istart, imode, iplan, ii, ireplans,
                   pre, ipreserve, iapplied, istaged, notified, dropped,
                   rmfailed, tgtVars,
                   nonInvVars>>

\* ------------------------------------------------ the services' retry loops
nonSvcVars == <<admVars, chanVars, orchVars, invVars, sweepVars, flowVars,
               routeVars>>

Services == {"anthropic", "doubao_llm", "image", "video", "doubao_video"}
\* LLMService.generate, DoubaoLLMService.generate: loops that re-raise
LlmServices == {"anthropic", "doubao_llm"}
\* max_retries: int = 3
DefaultMaxRetries == 3
\* the statuses a request is answered with
StatusCodes == {200, 400, 429, 503}
\* what one request ends in: a response with a status, a timeout
\* (httpx.TimeoutException, anthropic.APITimeoutError) or a connection
\* error (httpx.NetworkError, anthropic.APIConnectionError)
Outcomes == {<<"timeout", 0>>, <<"network", 0>>}
                \cup {<<"status", c>> : c \in StatusCodes}
\* res.raise_for_status() raises nothing
IsSuccess(out) == out[1] = "status" /\ out[2] >= 200 /\ out[2] < 300

\* every error status counts as retryable
IsRetryableStatusWide(code) == code >= 400
\* _is_retryable_status(status_code)
IsRetryableStatus(code) == code \in {408, 429, 500, 502, 503, 504}

\* _is_retryable_error(exc) of LLMService and of DoubaoLLMService
IsRetryableError(svc, out) ==
    IF svc = "anthropic"
    THEN \/ out[1] \in {"timeout", "network"}
         \/ out[1] = "status" /\ (out[2] = 429 \/ IsRetryableStatus(out[2]))
    ELSE \/ out[1] = "timeout"
         \/ out[1] = "status" /\ IsRetryableStatus(out[2])

\* the last attempt comes one attempt early
IsLastAttemptEarly(attempt, max) == attempt + 1 >= max
\* attempt >= self.max_retries
IsLastAttempt(attempt, max) == attempt >= max

\* delay_s = 0.5 (1.0 in DoubaoVideoService), in milliseconds
InitialDelay(svc) == IF svc = "doubao_video" THEN 1000 ELSE 500
\* the cap of delay_s: 8.0 (16.0 in DoubaoVideoService)
DelayCap(svc) == IF svc = "doubao_video" THEN 16000 ELSE 8000
\* a delay that doubles without a cap
NextDelayUncapped(svc, d) == d * 2
\* delay_s = min(delay_s * 2, cap)
NextDelay(svc, d) == Min(d * 2, DelayCap(svc))

\* what the loop body of generate does with the outcome of its request:
\* return, raise, or sleep and go round again
LlmStep(svc, out, attempt, max) ==
    IF IsSuccess(out) THEN "returned"
    ELSE IF IsLastAttempt(attempt, max) \/ ~IsRetryableError(svc, out)
         THEN "raised"
         ELSE "sleep"

\* the same for _post_json_with_retry and _request_with_retry: a
\* retryable status before the last attempt sleeps and continues;
\* raise_for_status raises HTTPStatusError for any other error status;
\* the except clause breaks on the last attempt or on a status that is
\* not retryable, and RuntimeError is raised after the loop
HttpStep(svc, out, attempt, max) ==
    IF out[1] = "status" /\ IsRetryableStatus(out[2]) /\ attempt < max
    THEN "sleep"
    ELSE IF IsSuccess(out) THEN "returned"
    ELSE IF IsLastAttempt(attempt, max) THEN "raised"
    ELSE IF out[1] = "status" /\ ~IsRetryableStatus(out[2]) THEN "raised"
    ELSE "sleep"

RetryStep(svc, out, attempt, max) ==
    IF svc \in LlmServices THEN LlmStep(svc, out, attempt, max)
    ELSE HttpStep(svc, out, attempt, max)

\* a caller enters the retry loop of a service built with max_retries = n
RetryStart(svc, n) ==
    /\ rtpc = "idle"
    /\ rtsvc' = svc
    /\ rtmax' = n
    /\ rtattempt' = 0
    /\ rtdelay' = InitialDelay(svc)
    /\ rtpc' = "call"
    /\ UNCHANGED <<rthist, rtslept, batchVars, jsonVars, nonSvcVars>>

\* the request of this attempt ends in out
RetryAttempt(out) ==
    /\ rtpc = "call"
    /\ rthist' = Append(rthist, out)
    /\ rtpc' = RetryStep(rtsvc, out, rtattempt, rtmax)
    /\ UNCHANGED <<rtsvc, rtmax, rtattempt, rtdelay, rtslept, batchVars, jsonVars,
                   nonSvcVars>>

\* asyncio.sleep(delay_s) returned; delay_s doubles up to its cap and the
\* loop goes to its next attempt
RetrySleep ==
    /\ rtpc = "sleep"
    /\ rtslept' = Append(rtslept, rtdelay)
    /\ rtdelay' = NextDelay(rtsvc, rtdelay)
    /\ rtattempt' = rtattempt + 1
    /\ rtpc' = "call"
    /\ UNCHANGED <<rtsvc, rtmax, rthist, batchVars, jsonVars, nonSvcVars>>

\* ---------------------------------------------- the batched asset stages
\* StoryboardArtistAgent.run and VideoGeneratorAgent.run: one generation
\* call per Shot without image_url / video_url
BatchStages == {"storyboard_artist", "video_generator"}
CallResults == {"ok", "failed"}

\* the stage was handed total = n shots by its query
BatchStart(stage, n) ==
    /\ bpc = "idle"
    /\ bstage' = stage
    /\ bn' = n
    /\ bi' = 0
    /\ bpc' = "item"
    /\ UNCHANGED <<bexpired, bcalls, basset, retryVars, jsonVars, nonSvcVars>>

\* the next position of the loop once shot i is dealt with
AfterItem(i, n) == IF i + 1 < n THEN "item" ELSE "final"

\* shot_order = shot.order; shot_id = shot.id, before the try: the read of
\* an expired instance needs a load, which raises outside the session's
\* greenlet
BatchItem ==
    /\ bpc = "item"
    /\ bpc' = IF bexpired THEN "raised" ELSE "generate"
    /\ UNCHANGED <<bstage, bn, bi, bexpired, bcalls, basset, retryVars, jsonVars,
                   nonSvcVars>>

\* the try block: the generation call returns a URL, which is set on the
\* shot and committed, or raises
BatchGenerate(res) ==
    /\ bpc = "generate"
    /\ bcalls' = Append(bcalls, res)
    /\ IF res = "ok"
       THEN /\ basset' = basset \cup {bi + 1}
            /\ bi' = bi + 1
            /\ bpc' = AfterItem(bi, bn)
       ELSE /\ bpc' = "handler"
            /\ UNCHANGED <<basset, bi>>
    /\ UNCHANGED <<bstage, bn, bexpired, retryVars, jsonVars, nonSvcVars>>

\* except Exception: send_message adds and flushes a Message, then
\* session.rollback() rolls the open transaction back, which expires every
\* instance of the session (the remaining shots, ctx.project, ctx.run)
BatchHandler ==
    /\ bpc = "handler"
    /\ bexpired' = TRUE
    /\ bi' = bi + 1
    /\ bpc' = AfterItem(bi, bn)
    /\ UNCHANGED <<bstage, bn, bcalls, basset, retryVars, jsonVars, nonSvcVars>>

\* after the loop: the final commit and send_message, which reads
\* ctx.project.id and ctx.run.id
BatchFinal ==
    /\ bpc = "final"
    /\ bpc' = IF bexpired THEN "raised" ELSE "done"
    /\ UNCHANGED <<bstage, bn, bi, bexpired, bcalls, basset, retryVars, jsonVars,
                   nonSvcVars>>

\* ------------------------------------------------------------ process start
\* the statuses init_db sweeps; StaleRunning is a sweep of the running runs
\* only
StaleRunning == {"running"}
StaleStatuses == {"queued", "running"}
ServiceRestarted == "Service restarted"
\* status and error a run can be left with when the process stops
LeftRunStates ==
    {<<"absent", "none">>, <<"queued", "none">>, <<"running", "none">>,
     <<"succeeded", "none">>, <<"failed", "timeout">>,
     <<"failed", "exception">>, <<"cancelled", "none">>,
     <<"cancelled", "timeout">>, <<"cancelled", ServiceRestarted>>}

\* init_db: UPDATE agentrun SET status = 'cancelled', error = 'Service
\* restarted' WHERE status IN ('queued', 'running'), and the commit
InitDb ==
    /\ boot = "starting"
    /\ rstatus' = [r \in RunIds |->
            IF rstatus[r] \in StaleStatuses THEN "cancelled" ELSE rstatus[r]]
    /\ rerror' = [r \in RunIds |->
            IF rstatus[r] \in StaleStatuses THEN ServiceRestarted ELSE rerror[r]]
    /\ boot' = "serving"
    /\ UNCHANGED <<scope, kind, fbMsgs, hpc, tpc, tcancel, mem, tasks,
                   cancelVars, histVars, chanVars, ragent, rprog, loopVars,
                   orchHist, invVars, flowVars, svcVars, routeVars, bootStatus,
                   bootError>>

\* ---------------------------------------------------------- specification
InitAdmRest ==
    /\ scope = [r \in RunIds |-> ProjectScope]
    /\ kind = [r \in RunIds |-> "none"]
    /\ fbMsgs = [r \in RunIds |-> 0]
    /\ hpc = [r \in RunIds |-> "none"]
    /\ tpc = [r \in RunIds |-> "none"]
    /\ tcancel = [r \in 0..MaxRuns |-> FALSE]
    /\ mem = [r \in RunIds |-> "absent"]
    /\ tasks = NoTask
    /\ cpc = "idle" /\ ctask = FALSE /\ csel = {}
    /\ cret = "none" /\ cevents = 0 /\ cdone = {}
    /\ lastReg = NoTask
    /\ preempted = FALSE
    /\ sent = {}

InitAdm ==
    /\ rstatus = [r \in RunIds |-> "absent"]
    /\ InitAdmRest

InitChan ==
    /\ flag = 0
    /\ sub = [w \in Waiters |-> FALSE]
    /\ inbox = [w \in Waiters |-> 0]
    /\ ack = [w \in Waiters |-> FALSE]
    /\ spc = [s \in Signalers |-> "idle"]
    /\ wpc = [w \in Waiters |-> "idle"]
    /\ wto = [w \in Waiters |-> 0]
    /\ elapsed = [w \in Waiters |-> 0]
    /\ pollAt = [w \in Waiters |-> 0]
    /\ wret = [w \in Waiters |-> FALSE]
    /\ wres = [w \in Waiters |-> <<>>]
    /\ cleared = FALSE
    /\ pending = FALSE
    /\ gset = FALSE
    /\ gany = FALSE
    /\ everCleared = FALSE
    /\ sigsAtFirst = -1

InitOrchRest ==
    /\ ragent = [r \in RunIds |-> "none"]
    /\ rprog = [r \in RunIds |-> ProgressZero]
    /\ oplan = <<>>
    /\ oi = 0
    /\ oname = "none"
    /\ omode = "full"
    /\ oauto = FALSE
    /\ operr = "none"
    /\ oreplans = 0
    /\ ostarted = -1
    /\ oexec = "none"
    /\ otimedout = FALSE
    /\ cwait = FALSE

InitOrch ==
    /\ rerror = [r \in RunIds |-> "none"]
    /\ InitOrchRest

InitInv ==
    /\ art = EmptyProject
    /\ nextId = [characters |-> 1, scenes |-> 1, shots |-> 1]
    /\ files = {}
    /\ ipc = "idle"
    /\ istart = "none"
    /\ imode = "full"
    /\ iplan = <<>>
    /\ ii = 0
    /\ ireplans = 0
    /\ pre = EmptyProject
    /\ ipreserve = NoPreserve
    /\ iapplied = "no"
    /\ istaged = 0
    /\ notified = 0
    /\ dropped = {}
    /\ rmfailed = {}
    /\ itargets = {}
    /\ imade = {}

\* the process is up and init_db found no run
\* routes/projects.py: a project is created with status "draft"
InitFlow ==
    /\ pstatus = "draft"
    /\ olog = <<>>
    /\ owaits = 0
    /\ owok = 0
    /\ oraised = "none"
    /\ orej = "none"

InitRetry ==
    /\ rtsvc = "none"
    /\ rtmax = 0
    /\ rtpc = "idle"
    /\ rtattempt = 0
    /\ rtdelay = 0
    /\ rthist = <<>>
    /\ rtslept = <<>>

InitBatch ==
    /\ bstage = "none"
    /\ bn = 0
    /\ bi = 0
    /\ bpc = "idle"
    /\ bexpired = FALSE
    /\ bcalls = <<>>
    /\ basset = {}

InitFb ==
    /\ flast = 0
    /\ fflag = FALSE
    /\ fpend = {}
    /\ fended = {}
    /\ fhist = <<>>
    /\ wspc = "idle"
    /\ fcount = 0
    /\ orouted = <<"none", "none">>
    /\ pdel = FALSE
    /\ oresumed = FALSE
    /\ ocleaned = <<>>

InitBoot ==
    /\ boot = "serving"
    /\ bootStatus = [r \in RunIds |-> "absent"]
    /\ bootError = [r \in RunIds |-> "none"]

\* ------------------------------------------------ _try_fix_incomplete_json
\* the characters the scan tells apart; "x" stands for every other one
JsonChars == {"{", "}", "[", "]", "\"", "\\", "x"}
JsonTexts == UNION {[1..n -> JsonChars] : n \in 0..MaxJson}

\* the scan's locals before the first character
ScanStart ==
    [open_braces |-> 0, open_brackets |-> 0, in_string |-> FALSE,
     escape_next |-> FALSE]
\* one iteration of `for char in text`
ScanChar(st, char) ==
    IF st.escape_next THEN [st EXCEPT !.escape_next = FALSE]
    ELSE IF char = "\\" THEN [st EXCEPT !.escape_next = TRUE]
    ELSE IF char = "\"" THEN [st EXCEPT !.in_string = ~st.in_string]
    ELSE IF st.in_string THEN st
    ELSE IF char = "{" THEN [st EXCEPT !.open_braces = @ + 1]
    ELSE IF char = "}" THEN [st EXCEPT !.open_braces = @ - 1]
    ELSE IF char = "[" THEN [st EXCEPT !.open_brackets = @ + 1]
    ELSE IF char = "]" THEN [st EXCEPT !.open_brackets = @ - 1]
    ELSE st
RECURSIVE Scan(_, _)
\* the scan's locals after the k first characters of text
Scan(text, k) ==
    IF k = 0 THEN ScanStart ELSE ScanChar(Scan(text, k - 1), text[k])
\* char * n, which is empty for n <= 0
Repeat(char, n) == [j \in 1..n |-> char]
\* _try_fix_incomplete_json(text): an open string is closed, then
\* text += ']' * open_brackets and text += '}' * open_braces
TryFixIncompleteJson(text) ==
    LET st == Scan(text, Len(text))
    IN (IF st.in_string THEN Append(text, "\"") ELSE text)
           \o Repeat("]", st.open_brackets) \o Repeat("}", st.open_braces)

\* the call returns
JsonFix ==
    /\ jpc = "call"
    /\ jout' = TryFixIncompleteJson(jtext)
    /\ jpc' = "returned"
    /\ UNCHANGED <<jtext, retryVars, batchVars, nonSvcVars>>

\* no call of _try_fix_incomplete_json is under way
InitJson ==
    /\ jtext = <<>>
    /\ jout = <<>>
    /\ jpc = "returned"

Init ==
    /\ InitAdm /\ InitChan /\ InitOrch /\ InitInv /\ InitBoot /\ InitFlow
    /\ InitRetry /\ InitBatch /\ InitFb /\ InitJson

Next ==
    \/ \E r \in RunIds : GenerateCreate(r)
    \/ \E r \in RunIds : GenerateRegister(r)
    \/ \E r \in RunIds : FeedbackCreate(r)
    \/ \E r \in RunIds : FeedbackRegister(r)
    \/ \E r \in RunIds, s \in Shots : ShotCheck(r, s)
    \/ \E r \in RunIds : ShotCreate(r)
    \/ \E r \in RunIds : ShotRegister(r)
    \/ CancelTask
    \/ CancelSelect
    \/ CancelCommit
    \/ \E r \in RunIds : TaskCancelUnstarted(r)
    \/ \E r \in RunIds : TaskLoad(r)
    \/ \E r \in RunIds : TaskSetRunning(r)
    \/ \E r \in RunIds : OrchStageStart(r)
    \/ \E r \in RunIds : ShotStageStart(r)
    \/ \E r \in RunIds : TaskSucceed(r)
    \/ \E r \in RunIds : OrchFail(r)
    \/ \E r \in RunIds : ShotFailGet(r)
    \/ \E r \in RunIds : ShotFailWrite(r)
    \/ \E r \in RunIds : TaskExit(r)
    \/ \E r \in RunIds : TaskCancelled(r)
    \/ \E r \in RunIds : TaskCancelGet(r)
    \/ \E r \in RunIds : TaskCancelWrite(r)
    \/ \E r \in RunIds : TaskCancelAbort(r)

Spec == Init /\ [][Next]_vars

\* the callers of the channel: signalers and the waiters in W
NextChan ==
    \/ \E s \in Signalers : TriggerSet(s)
    \/ \E s \in Signalers, D \in SUBSET {Orch} : TriggerPublish(s, D)
    \/ ConfirmClear(Orch)
    \/ ConfirmSendEvent(Orch)
    \/ \E t \in 0..MaxTimeout : CallWait(Orch, t)
    \/ Subscribe(Orch)
    \/ FirstGet(Orch)
    \/ DeleteAndReturn(Orch)
    \/ Tick(Orch)
    \/ PollMessage(Orch)
    \/ PollNone(Orch)
    \/ SecondGet(Orch)
    \/ Unsubscribe(Orch)

SpecChan == Init /\ [][NextChan]_vars

\* two processes wait for the confirmation of the same run id
NextChan2 ==
    \/ \E s \in Signalers : TriggerSet(s)
    \/ \E s \in Signalers, D \in SUBSET Waiters : TriggerPublish(s, D)
    \/ \E w \in Waiters : CallWait(w, ConfirmTimeout)
    \/ \E w \in Waiters : Subscribe(w)
    \/ \E w \in Waiters : FirstGet(w)
    \/ \E w \in Waiters : DeleteAndReturn(w)
    \/ \E w \in Waiters : Tick(w)
    \/ \E w \in Waiters : PollMessage(w)
    \/ \E w \in Waiters : PollNone(w)
    \/ \E w \in Waiters : SecondGet(w)
    \/ \E w \in Waiters : Unsubscribe(w)

SpecChan2 == Init /\ [][NextChan2]_vars

\* the steps of the task Orun and of the request that starts it
NextRun ==
    \/ GenerateCreate(Orun)
    \/ GenerateRegister(Orun)
    \/ FeedbackCreate(Orun)
    \/ FeedbackRegister(Orun)
    \/ TaskLoad(Orun)
    \/ \E auto \in BOOLEAN : RunSetRunning(auto)
    \/ RunReviewStart
    \/ \E a \in AllowedStartAgents, m \in Modes : RunRoute(a, m)
    \/ RunCleanup
    \/ RunStageStart
    \/ \E llm \in LlmStatuses : RunStage(llm)
    \/ \E ok \in BOOLEAN, fb \in BOOLEAN : RunWait(ok, fb)
    \/ RunRaise
    \/ RunFinish
    \/ RunFailLog
    \/ RunFailSet
    \/ TaskExit(Orun)

\* one run that no cancellation reaches
SpecOrch == Init /\ [][NextRun]_vars

\* the event loop keeps running the task and the handler of its request:
\* every await of the run returns or raises
SpecOrchLive == Init /\ [][NextRun]_vars /\ WF_vars(NextRun)

\* the same run in a project that a client may delete while the run is
\* under way
NextOrchD ==
    \/ ~pdel /\ NextRun
    \/ DeleteProject
    \/ RunAfterDelete

SpecOrchD == Init /\ [][NextOrchD]_vars

\* the same run, started by a caller of run_from_agent that may pass any
\* agent name
NextOrchN ==
    \/ NextRun
    \/ RunUnknownAgent

SpecOrchN == Init /\ [][NextOrchN]_vars

\* the run with the confirm messages of the WebSocket in place of the
\* abstract outcome of the checkpoint wait
NextOrchF ==
    \/ GenerateCreate(Orun)
    \/ GenerateRegister(Orun)
    \/ FeedbackCreate(Orun)
    \/ FeedbackRegister(Orun)
    \/ TaskLoad(Orun)
    \/ \E auto \in BOOLEAN : RunSetRunning(auto)
    \/ RunReviewStart
    \/ \E a \in AllowedStartAgents, m \in Modes : RunRoute(a, m)
    \/ RunCleanup
    \/ RunStageStart
    \/ \E llm \in LlmStatuses : RunStage(llm)
    \/ WsStore
    \/ \E text \in BOOLEAN : WsTrigger(text)
    \/ FbClear
    \/ \E ok \in BOOLEAN : FbWait(ok)
    \/ FbRead
    \/ RunFinish
    \/ RunFailLog
    \/ RunFailSet
    \/ TaskExit(Orun)

SpecOrchF == Init /\ [][NextOrchF]_vars

\* the steps of the task of the run; every await in them returns: the
\* stage executors and the review agent return, and the checkpoint wait
\* returns when the flag is set or when its timeout expires
TaskStepF ==
    \/ TaskLoad(Orun)
    \/ \E auto \in BOOLEAN : RunSetRunning(auto)
    \/ RunReviewStart
    \/ \E a \in AllowedStartAgents, m \in Modes : RunRoute(a, m)
    \/ RunCleanup
    \/ RunStageStart
    \/ \E llm \in LlmStatuses : RunStage(llm)
    \/ FbClear
    \/ \E ok \in BOOLEAN : FbWait(ok)
    \/ FbRead
    \/ RunFinish
    \/ RunFailLog
    \/ RunFailSet
    \/ TaskExit(Orun)

\* the event loop keeps running the task; the client sends at most
\* MaxConfirms confirm messages, with or without feedback, at any time
SpecOrchFLive == Init /\ [][NextOrchF]_vars /\ WF_vars(TaskStepF)

\* one call of one service's retry loop
NextRetry ==
    \/ \E svc \in Services, n \in 0..MaxRetries : RetryStart(svc, n)
    \/ \E out \in Outcomes : RetryAttempt(out)
    \/ RetrySleep

SpecRetry == Init /\ [][NextRetry]_vars

\* one run of one batched asset stage
NextBatch ==
    \/ \E stage \in BatchStages, n \in 1..MaxBatch : BatchStart(stage, n)
    \/ BatchItem
    \/ \E res \in CallResults : BatchGenerate(res)
    \/ BatchHandler
    \/ BatchFinal

SpecBatch == Init /\ [][NextBatch]_vars

\* the same run with the cancel endpoint and a preempting generate request
NextOrchX ==
    \/ NextRun
    \/ GenerateCreate(Orun + 1)
    \/ GenerateRegister(Orun + 1)
    \/ CancelTask
    \/ CancelSelect
    \/ CancelCommit
    \/ TaskCancelUnstarted(Orun)
    \/ TaskCancelled(Orun)
    \/ TaskCancelGet(Orun)
    \/ TaskCancelWrite(Orun)
    \/ TaskCancelAbort(Orun)

SpecOrchX == Init /\ [][NextOrchX]_vars

\* the rows and files of one project under a generate request and the
\* re-plans that follow it
NextInv ==
    \/ \E a \in AllowedStartAgents \cup {Agents[1]}, m \in Modes :
          InvRoute(a, m, {})
    \/ \E failing \in BOOLEAN : InvCleanup(failing)
    \/ InvOutline
    \/ InvScriptwriterFull
    \/ InvScriptwriterIncremental
    \/ InvCharacterArtist
    \/ \E cached \in BOOLEAN : InvStoryboardArtist(cached)
    \/ InvVideoGenerator
    \/ InvVideoMerger
    \/ InvRaise

SpecInv == Init /\ [][NextInv]_vars

\* the project's rows under re-plans whose routing names target shots
NextInvT ==
    \/ \E a \in AllowedStartAgents \cup {Agents[1]}, m \in Modes,
          ids \in SUBSET ShotIds : InvRoute(a, m, ids)
    \/ \E failing \in BOOLEAN : InvCleanup(failing)
    \/ InvOutline
    \/ InvScriptwriterFull
    \/ InvScriptwriterIncremental
    \/ InvCharacterArtist
    \/ \E cached \in BOOLEAN : InvStoryboardArtist(cached)
    \/ InvVideoGenerator
    \/ InvVideoMerger
    \/ InvRaise

SpecInvT == Init /\ [][NextInvT]_vars

\* a process start over the runs the previous process left behind
InitSweep ==
    /\ \E f \in [RunIds -> LeftRunStates] :
            /\ rstatus = [r \in RunIds |-> f[r][1]]
            /\ rerror = [r \in RunIds |-> f[r][2]]
    /\ bootStatus = rstatus
    /\ bootError = rerror
    /\ boot = "starting"
    /\ InitAdmRest /\ InitChan /\ InitOrchRest /\ InitInv /\ InitFlow
    /\ InitRetry /\ InitBatch /\ InitFb /\ InitJson

NextSweep == InitDb

SpecSweep == InitSweep /\ [][NextSweep]_vars

\* one call of _try_fix_incomplete_json on any text of at most MaxJson
\* characters
InitJsonCall ==
    /\ InitAdm /\ InitChan /\ InitOrch /\ InitInv /\ InitBoot /\ InitFlow
    /\ InitRetry /\ InitBatch /\ InitFb
    /\ jtext \in JsonTexts
    /\ jout = <<>>
    /\ jpc = "call"

NextJson == JsonFix

SpecJson == InitJsonCall /\ [][NextJson]_vars

\* ======================================================= claims under Spec
\* C1: at every instant each scope (project, resource_type, resource_id) has
\* at most one AgentRun whose status is queued or running.
C1_AtMostOneActiveRunPerScope ==
    \A s \in Scopes :
        Cardinality({r \in RunIds : rstatus[r] \in ActiveStatuses /\ scope[r] = s}) <= 1

\* C2: once an AgentRun's status is succeeded, failed or cancelled it never
\* changes again, whatever races with the owning task.
C2_TerminalStatusNeverChanges ==
    [][\A r \in RunIds :
          rstatus[r] \in TerminalStatuses => rstatus'[r] = rstatus[r]]_vars

\* C3: after a task was registered over a live task, for as long as the
\* newly registered task is not done, is_running(scope) is true and the
\* registry entry (the target of cancel) is that task, also after the
\* preempted task's finally block has called remove(scope).
C3_RegistryKeepsSecondTask ==
    (lastReg # NoTask /\ preempted /\ ~Done(lastReg))
        => (IsRunning /\ tasks = lastReg)

C4_GenerateRejectedWhenActive ==
    [][(HasActiveRun /\ \E r \in RunIds : GenerateCreate(r))
          => UNCHANGED <<rstatus, tpc, tasks>>]_vars

\* C5: a feedback request for a project that already has a queued or running
\* AgentRun is rejected: no AgentRun and no feedback message is created and
\* the live task is not preempted.
C5_FeedbackRejectedWhenActive ==
    [][(HasActiveRun /\ \E r \in RunIds : FeedbackCreate(r))
          => UNCHANGED <<rstatus, fbMsgs, tcancel, tasks>>]_vars

\* C23: once a call of cancel_project_run has returned "cancelled", every
\* run it found queued or running has status cancelled from then on, and
\* the task of such a run executes no further stage: it has ended, or the
\* cancellation is on its way to it or being handled.
C23_CancelledStaysCancelled ==
    \A r \in cdone :
        /\ rstatus[r] = "cancelled"
        /\ tpc[r] \in {"new", "loaded", "plan"} => tcancel[r]

\* the terminal event that matches a terminal status
MatchingEvent(st) ==
    IF st = "succeeded" THEN "run_completed"
    ELSE IF st = "failed" THEN "run_failed" ELSE "run_cancelled"

\* C26: once the task of a run has ended and no cancel call is in flight, a
\* run whose status is succeeded, failed or cancelled has had the matching
\* run_completed, run_failed or run_cancelled event sent, and a run for
\* which such an event was sent has the matching terminal status.
C26_TerminalPersistedAndBroadcast ==
    \A r \in RunIds :
        (tpc[r] = "done" /\ cpc = "idle") =>
            /\ rstatus[r] \in TerminalStatuses
                  => <<MatchingEvent(rstatus[r]), r>> \in sent
            /\ \A st \in TerminalStatuses :
                  <<MatchingEvent(st), r>> \in sent => rstatus[r] = st

\* =================================================== claims under SpecChan2
\* number of waits of w that returned True
TrueCount(w) == Cardinality({i \in 1..Len(wres[w]) : wres[w][i]})

\* C6: the checkpoint signal is consumed exactly once: with a single signal
\* issued for the run id and two waiters in wait_for_confirm_redis, at most
\* one wait returns True.
C6_SignalConsumedOnce ==
    NumStarted = 1 => TrueCount(Orch) + TrueCount(Other) <= 1

\* ==================================================== claims under SpecChan
\* C7: no signal is lost: when a trigger ran after the waiter's clear step
\* and before the waiter's deadline, the wait returns True, whether the
\* signal came before or after the subscription and whether or not the
\* broadcast was delivered.
C7_NoSignalLost ==
    (wpc[Orch] = "unsub" /\ cleared /\ gset) => wret[Orch]

\* a signal set after the clear was picked up after at least one poll
\* interval had passed
C7_Witness ==
    /\ wpc[Orch] = "unsub" /\ cleared /\ gset /\ wret[Orch]
    /\ elapsed[Orch] > 0

C9_TwoSignalsOneFlag ==
    /\ (sigsAtFirst = -1 /\ NumStarted = 2 /\ NumDone = 2 /\ ~everCleared)
           => flag = 1
    /\ (sigsAtFirst = 2 /\ NumStarted = 2 /\ ~everCleared) =>
           /\ Len(wres[Orch]) >= 1 => wres[Orch][1]
           /\ Len(wres[Orch]) >= 2 => ~wres[Orch][2]
           /\ (Len(wres[Orch]) = 1 /\ wpc[Orch] = "unsub") =>
                  (~wret[Orch] /\ TimedOut(wto[Orch], elapsed[Orch]))

\* after two signals the first wait returned True and the second False
C9_Witness ==
    /\ sigsAtFirst = 2 /\ NumStarted = 2 /\ ~everCleared
    /\ wres[Orch] = <<TRUE, FALSE>>

\* C10: wait_for_confirm_redis with timeout 0 returns False without entering
\* a wait when no signal is pending, and returns True whenever a signal is
\* pending when it is called, for every timeout including 0.
C10_ZeroTimeoutAndPending ==
    /\ (wpc[Orch] = "unsub" /\ pending) => wret[Orch]
    /\ (InRound(Orch) /\ wto[Orch] = 0)
           => wpc[Orch] \notin {"poll", "delm", "get2", "del2"}
    /\ (wpc[Orch] = "unsub" /\ wto[Orch] = 0 /\ ~pending /\ ~gset) => ~wret[Orch]

\* a wait with timeout 0 found the pending signal and returned True
C10_Witness ==
    wpc[Orch] = "unsub" /\ wto[Orch] = 0 /\ pending /\ wret[Orch]

\* ==================================================== claims under SpecOrch
\* C11: when a checkpoint wait returns false, no further stage is started or
\* executed in the run, and the run ends with status failed and the error
\* message of the timeout.
C11_TimeoutFailsRun ==
    /\ otimedout => tpc[Orun] \in {"fail", "fail_set", "exit_failed", "done"}
    /\ (otimedout /\ tpc[Orun] = "done")
          => (rstatus[Orun] = "failed" /\ rerror[Orun] = "timeout")

C11_Witness ==
    /\ otimedout /\ tpc[Orun] = "done" /\ oexec # "none"
    /\ rstatus[Orun] = "failed" /\ rerror[Orun] = "timeout"

\* C19: within one run the persisted progress never decreases from one
\* update to the next, except at the updates of a feedback-driven re-plan.
C19_ProgressMonotone ==
    [][(rprog'[Orun] # rprog[Orun] /\ ~IsReplanReset)
          => FracLeq(rprog[Orun], rprog'[Orun])]_vars

\* C21: in attended mode the orchestrator calls the checkpoint wait exactly
\* once after each stage that is not the last of the plan, and a stage other
\* than the first of the plan is started only after the wait that followed
\* its predecessor returned true; in unattended mode no wait is called.
C21_OneCheckpointPerStage ==
    /\ oauto => (owaits = 0 /\ tpc[Orun] # "confirm")
    /\ (~oauto /\ oplan # <<>>) => owaits = Min(Len(olog), Len(oplan) - 1)
    /\ (~oauto /\ tpc[Orun] = "confirm") => (owaits = oi + 1 /\ owok = oi)
    /\ (~oauto /\ tpc[Orun] = "stage") => (owaits = oi /\ owok = oi)

C21_Witness ==
    /\ ~oauto /\ tpc[Orun] = "stage" /\ oreplans = 1
    /\ oi = 2 /\ owaits = 2 /\ owok = 2 /\ Len(olog) = 2

UnattendedFromFirst ==
    /\ kind[Orun] = "generate" /\ oauto
    /\ tpc[Orun] \notin {"none", "new", "loaded"}
IsPrefix(p, q) == Len(p) <= Len(q) /\ p = SubSeq(q, 1, Len(p))
FixedOrder == <<"onboarding", "director", "scriptwriter", "character_artist",
                "storyboard_artist", "video_generator", "video_merger">>

C27_UnknownAgentLeavesRunState ==
    orej # "none" => RunState(Orun) = orej

\* =================================================== claims under SpecOrchD
\* C39: deleting a project first cancels all of its running work: once
\* delete_project has returned, every task of the project is finished or
\* cancelled, and no task of the project runs on.
C39_DeleteCancelsRunningWork ==
    pdel => /\ \A r \in RunIds : tpc[r] \in {"none", "done"} \/ tcancel[r]
            /\ ~oresumed

\* =================================================== claims under SpecOrchX
\* a call of cancel_project_run returns in this step
CancelReturns == cpc # "idle" /\ cpc' = "idle"
\* the call found no queued or running run
FoundNoRun == IF cpc = "cancelled" THEN ~HasActiveRun ELSE csel = {}
\* the response is no_active_run, no AgentRun changes, no event is sent
NoOpResponse ==
    /\ cret' = "no_active_run"
    /\ rstatus' = rstatus
    /\ cevents' = cevents /\ sent' = sent

\* C24: a cancel that finds no queued or running run and no live task, and
\* likewise a second cancel after a successful cancel has completed (no
\* other request having been made), returns no_active_run, changes no
\* AgentRun and sends no event.
C24_CancelIdempotent ==
    [][(/\ CancelReturns
        /\ \/ ~ctask /\ FoundNoRun
           \/ cret = "cancelled" /\ kind[Orun + 1] = "none")
          => NoOpResponse]_vars

\* C12: a run whose task is cancelled while it waits at a checkpoint is never
\* recorded as failed with the timeout message, and once the task and the
\* cancel request have finished its status is cancelled.
C12_CancelledWaitIsCancelled ==
    /\ cwait => ~(rstatus[Orun] = "failed" /\ rerror[Orun] = "timeout")
    /\ (cwait /\ tpc[Orun] = "done" /\ cpc = "idle")
          => rstatus[Orun] = "cancelled"

C12_Witness ==
    cwait /\ tpc[Orun] = "done" /\ cpc = "idle" /\ rstatus[Orun] = "cancelled"

\* C20: once the orchestrator has started stage i of the current plan, the
\* persisted current_agent is plan[i] until the next stage start, re-plan or
\* terminal update, and the executor invoked for the stage is plan[i].
C20_CurrentAgentIsPlanEntry ==
    ostarted >= 0 =>
        /\ ostarted < Len(oplan)
        /\ ragent[Orun] = oplan[ostarted + 1]
        /\ oexec # "none" => oexec = oplan[ostarted + 1]

C20_Witness ==
    /\ ostarted = 1 /\ oreplans = 1 /\ oexec = oplan[2]
    /\ ragent[Orun] = "storyboard_artist"

\* the incremental update of the scriptwriter has just run on the rows of
\* pre, and no later feedback has been routed (istart and imode are still
\* those of the update)
JustApplied == iapplied # "no" /\ istaged = 1 /\ ipc # "routed"
\* the cleanup has run and no stage of the plan has executed yet
JustCleaned == ipc = "loop" /\ istaged = 0
\* the URL columns and the scene of the rows that are both in a and in b
SameCharacter(a, b, c) == a.character_image[c] = b.character_image[c]
SameShot(a, b, s) ==
    /\ a.shot_scene[s] = b.shot_scene[s]
    /\ a.shot_image[s] = b.shot_image[s]
    /\ a.shot_video[s] = b.shot_video[s]

C15_FullStructuralDeletesAll ==
    [][(istaged = 0 /\ istaged' = 1 /\ imode = "full"
            /\ istart \in StructuralAgents)
        => /\ art.characters = {} /\ art.scenes = {} /\ art.shots = {}
           /\ art.project_video = NoUrl
           /\ notified = 1]_vars
C15_Witness ==
    /\ istaged = 1 /\ imode = "full" /\ istart = "scriptwriter"
    /\ pre.characters # {} /\ pre.scenes # {} /\ pre.shots # {}
    /\ pre.project_video # NoUrl
    /\ notified = 1

ClearedFrom(start, producer) == AgentIndex(start) <= AgentIndex(producer)
C18_SweepCancelsStale ==
    boot = "serving" =>
        \A r \in RunIds :
            /\ rstatus[r] \notin ActiveStatuses
            /\ bootStatus[r] \in ActiveStatuses =>
                    (rstatus[r] = "cancelled" /\ rerror[r] = ServiceRestarted)
            /\ bootStatus[r] \in TerminalStatuses =>
                    (rstatus[r] = bootStatus[r] /\ rerror[r] = bootError[r])
C18_Witness ==
    /\ boot = "serving"
    /\ bootStatus[1] = "running" /\ rstatus[1] = "cancelled"
    /\ rerror[1] = ServiceRestarted
    /\ bootStatus[2] = "failed" /\ rstatus[2] = "failed"
    /\ rerror[2] = "timeout"


PlainConfirmRead ==
    /\ tpc[Orun] = "confirmed" /\ tpc'[Orun] # "confirmed"
    /\ fended = {"plain"}

\* C33: when the checkpoint wait was ended by a confirmation without
\* feedback text, the cursor advances by exactly one stage and the run goes
\* on with the next stage: no classification and no re-plan follows.
C33_PlainConfirmAdvances ==
    [][PlainConfirmRead =>
          (oi' = oi + 1 /\ tpc'[Orun] = "loop" /\ oreplans' = oreplans)]_vars

IsSuffixFrom(plan, a) ==
    \E k \in 1..Len(FixedOrder) :
        FixedOrder[k] = a /\ plan = SubSeq(FixedOrder, k, Len(FixedOrder))
AfterCleanup == {"loop", "stage", "confirm", "waiting", "confirmed", "finish"}

C37_RunTerminates ==
    (tpc[Orun] = "new") ~> (rstatus[Orun] \in TerminalStatuses)
C37_Witness ==
    /\ rstatus[Orun] = "succeeded" /\ kind[Orun] = "generate"
    /\ oreplans > 0 /\ fhist # <<>> /\ ~oauto

\* =================================================== claims under SpecRetry
\* a failure the loop of the service retries: a timeout, a connection error
\* the service catches as retryable, or a retryable status
RetryableStatuses == {408, 429, 500, 502, 503, 504}
\* DoubaoLLMService retries timeouts only, the others connection errors too
RetriedTransport(svc) ==
    IF svc = "doubao_llm" THEN {"timeout"} ELSE {"timeout", "network"}
IsRetryableFailure(svc, out) ==
    \/ out[1] \in RetriedTransport(svc)
    \/ out[1] = "status" /\ out[2] \in RetryableStatuses
AllRetryable == \A k \in 1..Len(rthist) : IsRetryableFailure(rtsvc, rthist[k])

C30_NonRetryablePropagates ==
    \A k \in 1..Len(rthist) :
        (~IsSuccess(rthist[k]) /\ ~IsRetryableFailure(rtsvc, rthist[k])) =>
            /\ k = Len(rthist)
            /\ rtpc = "raised"
            /\ Len(rtslept) = k - 1
C30_Witness ==
    /\ rtsvc = "doubao_video" /\ rtmax = DefaultMaxRetries /\ rtpc = "raised"
    /\ rthist = << <<"status", 400>> >> /\ rtslept = <<>>

\* the failures every loop is to retry: a timeout, a connection error and a
\* status of the retryable set
UniformlyRetryable(out) ==
    \/ out[1] \in {"timeout", "network"}
    \/ out[1] = "status" /\ out[2] \in RetryableStatuses
\* the loop went on after its k-th request
Retried(k) == k < Len(rthist) \/ rtpc \in {"sleep", "call"}

\* C31: in the loop of every service a failed request that is not the last
\* allowed attempt is retried exactly when it is a timeout, a connection
\* error or a status in {408, 429, 500, 502, 503, 504}.
C31_UniformClassification ==
    \A k \in 1..Len(rthist) :
        (~IsSuccess(rthist[k]) /\ k <= rtmax) =>
            (Retried(k) <=> UniformlyRetryable(rthist[k]))

RECURSIVE Pow2(_)
Pow2(n) == IF n = 0 THEN 1 ELSE 2 * Pow2(n - 1)
\* min(initial * 2^(k-1), cap) in milliseconds: 0.5 s and 8 s, for the
\* Doubao video service 1 s and 16 s
BackoffDelay(svc, k) ==
    IF svc = "doubao_video" THEN Min(1000 * Pow2(k - 1), 16000)
    ELSE Min(500 * Pow2(k - 1), 8000)

\* C32: the delay slept before the k-th retry is min(initial * 2^(k-1), cap)
\* with initial 0.5 s and cap 8 s (1 s and 16 s for the Doubao video
\* service), and the delay the loop holds for its next retry is the next
\* value of that sequence.
C32_BackoffDoublesToCap ==
    /\ \A k \in 1..Len(rtslept) : rtslept[k] = BackoffDelay(rtsvc, k)
    /\ rtsvc # "none" => rtdelay = BackoffDelay(rtsvc, Len(rtslept) + 1)
C32_Witness ==
    /\ rtsvc = "anthropic" /\ Len(rtslept) = 6
    /\ rtslept[4] = 4000 /\ rtslept[5] = 8000 /\ rtslept[6] = 8000

Openers == {"{", "["}
Closer(c) == IF c = "{" THEN "}" ELSE "]"
IsBracketText(text) == \A k \in 1..Len(text) : text[k] \in {"{", "}", "[", "]"}
NoStack == <<"mismatch">>
RECURSIVE OpenStack(_, _)
\* the closers the k first characters of text still wait for, innermost
\* first, or NoStack when a closer there matches no open bracket
OpenStack(text, k) ==
    IF k = 0 THEN <<>>
    ELSE LET below == OpenStack(text, k - 1)
         IN IF below = NoStack THEN NoStack
            ELSE IF text[k] \in Openers THEN <<Closer(text[k])>> \o below
            ELSE IF below # <<>> /\ below[1] = text[k] THEN Tail(below)
            ELSE NoStack
WellNested(text) == OpenStack(text, Len(text)) = <<>>
IsTruncatedWellNested(text) ==
    IsBracketText(text) /\ OpenStack(text, Len(text)) # NoStack

\* C40: for every truncated prefix of a well-nested sequence of braces and
\* brackets the repair appends closers so that the result is well-nested,
\* each closer matching the most recently opened unclosed bracket, and an
\* already balanced input is returned unchanged.
C40_RepairIsWellNested ==
    (jpc = "returned" /\ IsTruncatedWellNested(jtext)) =>
        /\ Len(jtext) <= Len(jout) /\ SubSeq(jout, 1, Len(jtext)) = jtext
        /\ WellNested(jout)
        /\ WellNested(jtext) => jout = jtext

====
